---- MODULE Spec2Model ----
(***************************************************************************)
(* A model of the in-memory B-Tree index of database_mechanics:            *)
(* KeyValuePair (key_value_pair.py), BTreeNode (btree_node.py) and         *)
(* BTreeIndex (btree_index.py).                                            *)
(*                                                                         *)
(* Nodes are values: a node is a record holding its min degree, its leaf   *)
(* flag, its list of key/value pairs and its list of children.  The code   *)
(* mutates nodes in place through references; here every operation        *)
(* returns the rewritten node and the caller puts it back where the        *)
(* reference pointed.  Python list indices are kept 0-based in every       *)
(* operator that takes or returns an index, as in the source.              *)
(*                                                                         *)
(* BTreeNode.__init__ and KeyValuePair.__init__ store their first field    *)
(* with `super.__setattr__(...)`; the model takes the field as stored      *)
(* (what `super().__setattr__(...)` does), so that the operations of the   *)
(* tree can be examined at all.  The constructors as written are           *)
(* BTreeNode_init and BTreeIndex_init.                                     *)
(***************************************************************************)
EXTENDS Integers, Sequences, FiniteSets, TLC

\* ------------------------------------------------------------------ bounds
MaxKey == 5          \* a run from the empty tree uses keys 1..MaxKey
MaxVal == 2          \* values are 1..MaxVal
MaxCalls == 8        \* a run from the empty tree makes at most MaxCalls calls
TallKeys == 8        \* a tall run starts from a tree built by TallKeys inserts
TallSpare == 2       \* a tall run has TallSpare keys that its start tree lacks
TallCalls == 3       \* a tall run makes at most TallCalls calls
MaxDegree == 3       \* min degrees are 2..MaxDegree
DistinctKeys == 7    \* a run of distinct inserts uses keys 1..DistinctKeys
EdgeCalls == 5       \* a run with null keys, null values and constructor
                     \* calls makes at most EdgeCalls calls
NodeCalls == 4       \* a run on a single node makes at most NodeCalls calls
NodeMaxKey == 3      \* and uses the keys 1..NodeMaxKey
RecursionLimit == 3  \* the interpreter's limit on nested calls, scaled down
InnerDuplicateCalls == 2  \* a run from the tree that holds a key in an internal
                          \* node and in a leaf makes at most InnerDuplicateCalls
                          \* calls
EqualKeysCalls == 2  \* a run from the tree whose root holds a key twice makes at
                     \* most EqualKeysCalls calls
DuplicateCalls == 2  \* a run from the tree that holds a key twice in one node
                     \* makes at most DuplicateCalls calls

TallMaxKey == TallKeys + TallSpare
\* A dense run starts from the tree that inserts of DenseKeys build: with
\* min degree 2 its root is a full internal node above a full leaf, so that
\* one more insert splits at two levels.
DenseKeys == <<2, 4, 1, 7, 10, 9, 6, 3, 11, 8>>
DenseMaxKey == Len(DenseKeys) + 1

Largest(a, b) == IF a > b THEN a ELSE b
AllKeys == 1..Largest(MaxKey, Largest(TallMaxKey, DenseMaxKey))
Values == 1..MaxVal
MinDegrees == 2..MaxDegree

\* Python's None: the "absent" result of search / insert / delete.
None == 0

VARIABLES
    min_degree,   \* BTreeIndex._min_degree
    root,         \* BTreeIndex._root
    size,         \* BTreeIndex._size
    op,           \* the last public call: <<name, key, value>>
    ret,          \* what the last public call returned
    raised,       \* the exception the last public call raised, or "none"
    ref,          \* history: for each key, the value of its most recent
                  \* insert not followed by a delete of it, else None
    left,         \* the number of public calls the run may still make
    steps,        \* history: the steps the last public call took
    max_key,      \* the calls of the run use the keys 1..max_key
    call          \* the call in progress when calls are followed step by
                  \* step: its position, its local variables, its frames

vars == <<min_degree, root, size, op, ret, raised, steps, ref, left, max_key, call>>

\* ------------------------------------------------------------ evaluation
\* With(value, Body) is Body(value), the value being computed once.
With(value, Body(_)) == CHOOSE result \in {Body(v) : v \in {value}} : TRUE

\* ------------------------------------------------------- Python list model
\* list[i] for a 0-based i, negative i counting from the end.
ListIndex(s, i) == IF i < 0 THEN i + Len(s) + 1 ELSE i + 1

ListGet(s, i) == s[ListIndex(s, i)]

\* list.insert(i, x): the position is clamped into 0..len.
ListInsert(s, i, x) ==
    LET n == Len(s)
        p == IF i < 0 THEN (IF i + n < 0 THEN 0 ELSE i + n)
                      ELSE (IF i > n THEN n ELSE i)
    IN  SubSeq(s, 1, p) \o <<x>> \o SubSeq(s, p + 1, n)

\* list.pop(i): the list that is left.
ListRemove(s, i) ==
    LET p == ListIndex(s, i)
    IN  SubSeq(s, 1, p - 1) \o SubSeq(s, p + 1, Len(s))

ListSet(s, i, x) == [s EXCEPT ![ListIndex(s, i)] = x]

\* bisect.bisect_left(a, x, lo, hi)
RECURSIVE bisect_left_from(_, _, _, _)
bisect_left_from(a, x, lo, hi) ==
    IF lo < hi
    THEN LET mid == (lo + hi) \div 2
         IN  IF a[mid + 1] < x
             THEN bisect_left_from(a, x, mid + 1, hi)
             ELSE bisect_left_from(a, x, lo, mid)
    ELSE lo

bisect_left(a, x) == bisect_left_from(a, x, 0, Len(a))

\* ------------------------------------------------------------ KeyValuePair
KeyValuePair(key, value) == [key |-> key, value |-> value]

\* ---------------------------------------------------------------- BTreeNode
BTreeNode(t, is_leaf) ==
    [min_degree |-> t, is_leaf |-> is_leaf,
     key_value_pairs |-> <<>>, children |-> <<>>]

\* BTreeNode.__len__
NodeLen(node) == Len(node.key_value_pairs)

NodeKeys(node) == [i \in 1..NodeLen(node) |-> node.key_value_pairs[i].key]

get_key(node, index) == ListGet(node.key_value_pairs, index).key

get_value(node, index) == ListGet(node.key_value_pairs, index).value

get_key_value_pair(node, index) == ListGet(node.key_value_pairs, index)

get_child(node, index) == ListGet(node.children, index)

\* A faulty is_full that reports a node full one entry too early;
\* RootSplitTiming does not survive it.
is_full_one_early(node) == NodeLen(node) >= 2 * node.min_degree - 2

\* A faulty is_full that reports a node full one entry too late; Occupancy
\* does not survive it.
is_full_one_late(node) == NodeLen(node) >= 2 * node.min_degree

\* A faulty is_full that counts the children instead of the entries, so
\* that a leaf is never full; ProactiveSplitting does not survive it.
is_full_counts_children(node) == Len(node.children) >= 2 * node.min_degree

is_full(node) == NodeLen(node) >= 2 * node.min_degree - 1

\* A faulty insert_key_value that appends the pair instead of placing it
\* at its sorted position; OrderIndependence does not survive it.
insert_key_value_appended(node, key, value) ==
    [node EXCEPT !.key_value_pairs = Append(@, KeyValuePair(key, value))]

insert_key_value(node, key, value) ==
    With(bisect_left(NodeKeys(node), key), LAMBDA insert_position :
        [node EXCEPT !.key_value_pairs =
            ListInsert(@, insert_position, KeyValuePair(key, value))])

find_key_index_negated_position(node, key) ==
    IF NodeLen(node) = 0
    THEN -1
    ELSE With(NodeKeys(node), LAMBDA keys :
         With(bisect_left(keys, key), LAMBDA position :
             IF position < Len(keys) /\ keys[position + 1] = key
             THEN position
             ELSE -position))

find_key_index(node, key) ==
    IF NodeLen(node) = 0
    THEN -1
    ELSE With(NodeKeys(node), LAMBDA keys :
         With(bisect_left(keys, key), LAMBDA position :
             IF position < Len(keys) /\ keys[position + 1] = key
             THEN position
             ELSE -(position + 1)))

get_child_index_left_of_match(node, key) ==
    With(find_key_index(node, key), LAMBDA key_index :
        IF key_index >= 0 THEN key_index ELSE -(key_index + 1))

get_child_index(node, key) ==
    With(find_key_index(node, key), LAMBDA key_index :
        IF key_index >= 0 THEN key_index + 1 ELSE -(key_index + 1))

insert_child(node, index, child) ==
    [node EXCEPT !.children = ListInsert(@, index, child)]

\* remove_key_value_pair / remove_child: the node that is left (the popped
\* element is get_key_value_pair / get_child at the same index).
remove_key_value_pair(node, index) ==
    [node EXCEPT !.key_value_pairs = ListRemove(@, index)]

remove_child(node, index) ==
    [node EXCEPT !.children = ListRemove(@, index)]

\* The in-place write  node.get_key_value_pair(index).value = value
set_value(node, index, value) ==
    [node EXCEPT !.key_value_pairs =
        ListSet(@, index, KeyValuePair(get_key(node, index), value))]

\* The in-place rewrite of the node that parent.get_child(index) refers to.
set_child(parent, index, child) ==
    [parent EXCEPT !.children = ListSet(@, index, child)]

\* node.insert_key_value(p.key, p.value) for each p of pairs, in order.
RECURSIVE insert_all_key_values(_, _)
insert_all_key_values(node, pairs) ==
    IF pairs = <<>>
    THEN node
    ELSE With(insert_key_value(node, Head(pairs).key, Head(pairs).value),
              LAMBDA node1 : insert_all_key_values(node1, Tail(pairs)))

\* --------------------------------------------------------------- BTreeIndex
\* Whether a step of an operation worked on a leaf or on an internal node.
Kind(node) == IF node.is_leaf THEN "leaf" ELSE "internal"

\* A faulty is_empty that also takes a tree of one entry for empty;
\* EmptyingAndReuse does not survive it.
is_empty_at_one(sz) == sz <= 1

is_empty(sz) == sz = 0

RECURSIVE search_from(_, _)
search_from(current, key) ==
    With(find_key_index(current, key), LAMBDA index :
        IF index >= 0
        THEN get_value(current, index)
        ELSE IF current.is_leaf
             THEN None
             ELSE With(get_child(current, get_child_index(current, key)),
                       LAMBDA child : search_from(child, key)))

search(rt, sz, key) == IF is_empty(sz) THEN None ELSE search_from(rt, key)

\* BTreeIndex.__contains__
contains(rt, sz, key) == search(rt, sz, key) # None

\* A faulty right node of a split, created with the default leaf flag
\* BTreeNode(min_degree); HeightBalance does not survive it.
split_right_default_leaf(current, t) ==
    With(insert_all_key_values(BTreeNode(t, TRUE),
                               SubSeq(current.key_value_pairs, t + 1, NodeLen(current))),
         LAMBDA right :
             IF (~current.is_leaf) /\ Len(current.children) > t
             THEN [right EXCEPT !.children =
                      SubSeq(current.children, t + 1, Len(current.children))]
             ELSE right)

\* _split_node, steps 3-5: the new right node, which receives the pairs after
\* the middle one (middle_index = t - 1) and, if current is not a leaf, the
\* children after position middle_index.
split_right(current, t) ==
    With(insert_all_key_values(BTreeNode(t, current.is_leaf),
                               SubSeq(current.key_value_pairs, t + 1, NodeLen(current))),
         LAMBDA right :
             IF (~current.is_leaf) /\ Len(current.children) > t
             THEN [right EXCEPT !.children =
                      SubSeq(current.children, t + 1, Len(current.children))]
             ELSE right)

\* A faulty left node of a split that keeps one entry too few;
\* FreshInsert does not survive it.
split_left_one_short(current, t) ==
    [current EXCEPT
        !.key_value_pairs = SubSeq(@, 1, t - 2),
        !.children = IF (~current.is_leaf) /\ Len(@) > t
                     THEN SubSeq(@, 1, t)
                     ELSE @]

\* _split_node, steps 2-5: what is left of current.
split_left(current, t) ==
    [current EXCEPT
        !.key_value_pairs = SubSeq(@, 1, t - 1),
        !.children = IF (~current.is_leaf) /\ Len(@) > t
                     THEN SubSeq(@, 1, t)
                     ELSE @]

\* _split_node(current, parent) with current = parent.get_child(current_index);
\* the result is the parent.  (The code is never called with parent = None.)
split_node(parent, current_index, t) ==
    With(get_child(parent, current_index), LAMBDA current :
    With(get_key_value_pair(current, t - 1), LAMBDA middle_kv_pair :
    With(insert_key_value(set_child(parent, current_index, split_left(current, t)),
                          middle_kv_pair.key, middle_kv_pair.value),
         LAMBDA parent1 :
    With(find_key_index(parent1, middle_kv_pair.key) + 1, LAMBDA insertion_index :
        insert_child(parent1, insertion_index, split_right(current, t))))))

\* The descent loop of insert from `current`: the rewritten node, the value
\* returned, the number of entries added and the steps taken.
RECURSIVE insert_descend(_, _, _, _)
insert_descend(current, key, value, t) ==
    With(find_key_index(current, key), LAMBDA key_index :
        IF key_index >= 0
        THEN [node |-> set_value(current, key_index, value),
              result |-> get_value(current, key_index),
              added |-> 0,
              steps |-> {<<"update", Kind(current)>>}]
        ELSE IF current.is_leaf
        THEN [node |-> insert_key_value(current, key, value),
              result |-> None,
              added |-> 1,
              steps |-> {<<"add", "leaf">>}]
        ELSE With(get_child(current, get_child_index(current, key)), LAMBDA child :
             With(IF is_full(child)
                  THEN split_node(current, get_child_index(current, key), t)
                  ELSE current,
                  LAMBDA current1 :
             With(get_child_index(current1, key), LAMBDA child_index :
             With(insert_descend(get_child(current1, child_index), key, value, t),
                  LAMBDA r :
                 [node |-> set_child(current1, child_index, r.node),
                  result |-> r.result,
                  added |-> r.added,
                  steps |-> r.steps \cup
                            (IF is_full(child)
                             THEN {<<"split_child", Kind(child)>>}
                             ELSE {})])))))

\* A faulty empty-tree branch of insert that forgets  self._size += 1 ;
\* EmptyTreeCalls does not survive it.
insert_into_empty_size_kept(rt, sz, key, value) ==
    [root |-> insert_key_value(rt, key, value),
     size |-> sz,
     result |-> None,
     steps |-> {<<"add", "leaf">>}]

\* BTreeIndex.insert, the branch taken when the tree is empty.
insert_into_empty(rt, sz, key, value) ==
    [root |-> insert_key_value(rt, key, value),
     size |-> sz + 1,
     result |-> None,
     steps |-> {<<"add", "leaf">>}]

\* BTreeIndex.insert: the new root, the new size, the value returned and the
\* steps taken.
insert(rt, sz, t, key, value) ==
    IF is_empty(sz)
    THEN insert_into_empty(rt, sz, key, value)
    ELSE With(IF is_full(rt)
              THEN split_node(insert_child(BTreeNode(t, FALSE), 0, rt), 0, t)
              ELSE rt,
              LAMBDA root1 :
         With(insert_descend(root1, key, value, t), LAMBDA r :
             [root |-> r.node,
              size |-> sz + r.added,
              result |-> r.result,
              steps |-> r.steps \cup
                        (IF is_full(rt) THEN {<<"split_root", Kind(rt)>>} ELSE {})]))

\* _cannot_safely_merge(node1, node2)
cannot_safely_merge(node1, node2, t) ==
    NodeLen(node1) + 1 + NodeLen(node2) > 2 * t - 1

\* _borrow_from_left_sibling(node, parent, node_index) with
\* node = parent.get_child(node_index); the result is the parent.
borrow_from_left_sibling(parent, node_index) ==
    With(get_child(parent, node_index), LAMBDA node :
    With(get_child(parent, node_index - 1), LAMBDA left_sibling :
    With(get_key_value_pair(parent, node_index - 1), LAMBDA separator :
    With(get_key_value_pair(left_sibling, NodeLen(left_sibling) - 1),
         LAMBDA borrowed_key :
    With(insert_key_value(remove_key_value_pair(parent, node_index - 1),
                          borrowed_key.key, borrowed_key.value),
         LAMBDA parent1 :
    With(remove_key_value_pair(left_sibling, NodeLen(left_sibling) - 1),
         LAMBDA left1 :
    With(insert_key_value(node, separator.key, separator.value), LAMBDA node1 :
        IF ~node.is_leaf
        THEN set_child(
                 set_child(parent1, node_index - 1,
                           remove_child(left1, Len(left1.children) - 1)),
                 node_index,
                 insert_child(node1, 0, get_child(left1, Len(left1.children) - 1)))
        ELSE set_child(set_child(parent1, node_index - 1, left1),
                       node_index, node1))))))))

\* A faulty _borrow_from_right_sibling that leaves the children where they
\* are; ChildCount does not survive it.
borrow_from_right_sibling_entries_only(parent, node_index) ==
    With(get_child(parent, node_index), LAMBDA node :
    With(get_child(parent, node_index + 1), LAMBDA right_sibling :
    With(get_key_value_pair(parent, node_index), LAMBDA separator :
    With(get_key_value_pair(right_sibling, 0), LAMBDA borrowed_key :
    With(insert_key_value(remove_key_value_pair(parent, node_index),
                          borrowed_key.key, borrowed_key.value),
         LAMBDA parent1 :
        set_child(set_child(parent1, node_index + 1,
                            remove_key_value_pair(right_sibling, 0)),
                  node_index,
                  insert_key_value(node, separator.key, separator.value)))))))

\* _borrow_from_right_sibling(node, parent, node_index)
borrow_from_right_sibling(parent, node_index) ==
    With(get_child(parent, node_index), LAMBDA node :
    With(get_child(parent, node_index + 1), LAMBDA right_sibling :
    With(get_key_value_pair(parent, node_index), LAMBDA separator :
    With(get_key_value_pair(right_sibling, 0), LAMBDA borrowed_key :
    With(insert_key_value(remove_key_value_pair(parent, node_index),
                          borrowed_key.key, borrowed_key.value),
         LAMBDA parent1 :
    With(remove_key_value_pair(right_sibling, 0), LAMBDA right1 :
    With(insert_key_value(node, separator.key, separator.value), LAMBDA node1 :
        IF ~node.is_leaf
        THEN set_child(
                 set_child(parent1, node_index + 1, remove_child(right1, 0)),
                 node_index,
                 insert_child(node1, Len(node1.children), get_child(right1, 0)))
        ELSE set_child(set_child(parent1, node_index + 1, right1),
                       node_index, node1))))))))

\* A faulty _merge_with_left_sibling that puts the children of the node in
\* front of the children of the left sibling; MergeEffect does not survive
\* it.
merge_with_left_sibling_children_in_front(parent, node_index, t) ==
    IF node_index <= 0 \/ node_index - 1 >= NodeLen(parent)
    THEN parent
    ELSE
    With(get_child(parent, node_index), LAMBDA node :
    With(get_child(parent, node_index - 1), LAMBDA left_sibling :
        IF /\ cannot_safely_merge(left_sibling, node, t)
           /\ NodeLen(left_sibling) > t - 1
        THEN borrow_from_left_sibling(parent, node_index)
        ELSE
        With(get_key_value_pair(parent, node_index - 1), LAMBDA separator :
        With(insert_all_key_values(
                 insert_key_value(left_sibling, separator.key, separator.value),
                 node.key_value_pairs),
             LAMBDA left1 :
        With(IF ~node.is_leaf
             THEN [left1 EXCEPT !.children = node.children \o @]
             ELSE left1,
             LAMBDA left2 :
        With(set_child(remove_key_value_pair(parent, node_index - 1),
                       node_index - 1, left2),
             LAMBDA parent1 :
            IF node_index < Len(parent1.children)
            THEN remove_child(parent1, node_index)
            ELSE parent1))))))

\* _merge_with_left_sibling(node, parent, node_index)
merge_with_left_sibling(parent, node_index, t) ==
    IF node_index <= 0 \/ node_index - 1 >= NodeLen(parent)
    THEN parent
    ELSE
    With(get_child(parent, node_index), LAMBDA node :
    With(get_child(parent, node_index - 1), LAMBDA left_sibling :
        IF /\ cannot_safely_merge(left_sibling, node, t)
           /\ NodeLen(left_sibling) > t - 1
        THEN borrow_from_left_sibling(parent, node_index)
        ELSE
        \* the separator exists: node_index - 1 < len(parent) was checked above
        With(get_key_value_pair(parent, node_index - 1), LAMBDA separator :
        With(insert_all_key_values(
                 insert_key_value(left_sibling, separator.key, separator.value),
                 node.key_value_pairs),
             LAMBDA left1 :
        With(IF ~node.is_leaf
             THEN [left1 EXCEPT !.children = @ \o node.children]
             ELSE left1,
             LAMBDA left2 :
        With(set_child(remove_key_value_pair(parent, node_index - 1),
                       node_index - 1, left2),
             LAMBDA parent1 :
            IF node_index < Len(parent1.children)
            THEN remove_child(parent1, node_index)
            ELSE parent1))))))

\* A faulty _merge_with_right_sibling that removes the separator from the
\* parent and drops it; MergeSize does not survive it.
merge_with_right_sibling_separator_lost(parent, node_index, t) ==
    IF node_index >= Len(parent.children) - 1 \/ node_index >= NodeLen(parent)
    THEN parent
    ELSE
    With(get_child(parent, node_index), LAMBDA node :
    With(get_child(parent, node_index + 1), LAMBDA right_sibling :
    With(insert_all_key_values(node, right_sibling.key_value_pairs),
         LAMBDA node1 :
    With(IF ~node.is_leaf
         THEN [node1 EXCEPT !.children = @ \o right_sibling.children]
         ELSE node1,
         LAMBDA node2 :
    With(set_child(remove_key_value_pair(parent, node_index),
                   node_index, node2),
         LAMBDA parent1 :
        IF node_index + 1 < Len(parent1.children)
        THEN remove_child(parent1, node_index + 1)
        ELSE parent1)))))

\* _merge_with_right_sibling(node, parent, node_index)
merge_with_right_sibling(parent, node_index, t) ==
    IF node_index >= Len(parent.children) - 1 \/ node_index >= NodeLen(parent)
    THEN parent
    ELSE
    With(get_child(parent, node_index), LAMBDA node :
    With(get_child(parent, node_index + 1), LAMBDA right_sibling :
        IF /\ cannot_safely_merge(node, right_sibling, t)
           /\ NodeLen(right_sibling) > t - 1
        THEN borrow_from_right_sibling(parent, node_index)
        ELSE
        \* the separator exists: node_index < len(parent) was checked above
        With(get_key_value_pair(parent, node_index), LAMBDA separator :
        With(insert_all_key_values(
                 insert_key_value(node, separator.key, separator.value),
                 right_sibling.key_value_pairs),
             LAMBDA node1 :
        With(IF ~node.is_leaf
             THEN [node1 EXCEPT !.children = @ \o right_sibling.children]
             ELSE node1,
             LAMBDA node2 :
        With(set_child(remove_key_value_pair(parent, node_index),
                       node_index, node2),
             LAMBDA parent1 :
            IF node_index + 1 < Len(parent1.children)
            THEN remove_child(parent1, node_index + 1)
            ELSE parent1))))))

\* A faulty _fix_underflow that never borrows: it calls the merge with the
\* left sibling if there is one, else the merge with the right sibling;
\* UnsafeMergeNeverArises does not survive it.
fix_underflow_never_borrows(parent, child_index, t) ==
    IF child_index >= Len(parent.children) \/ NodeLen(parent) = 0
    THEN [node |-> parent, steps |-> {}]
    ELSE With(get_child(parent, child_index), LAMBDA child :
    IF NodeLen(child) >= t - 1
    THEN [node |-> parent, steps |-> {}]
    ELSE IF child_index > 0 /\ NodeLen(parent) > child_index - 1
    THEN [node |-> merge_with_left_sibling(parent, child_index, t),
          steps |-> {<<"merge_with_left_sibling", Kind(child)>>}]
    ELSE IF child_index < Len(parent.children) - 1 /\ NodeLen(parent) > child_index
    THEN [node |-> merge_with_right_sibling(parent, child_index, t),
          steps |-> {<<"merge_with_right_sibling", Kind(child)>>}]
    ELSE [node |-> parent, steps |-> {}])

\* A faulty _fix_underflow that merges the child into its left sibling
\* whenever there is one, without looking at the sibling's size and without
\* the fallback of the merge; MergeNeverOverflows does not survive it.
fix_underflow_merges_unchecked(parent, child_index, t) ==
    IF child_index >= Len(parent.children) \/ NodeLen(parent) = 0
    THEN [node |-> parent, steps |-> {}]
    ELSE With(get_child(parent, child_index), LAMBDA child :
    IF NodeLen(child) >= t - 1
    THEN [node |-> parent, steps |-> {}]
    ELSE IF child_index > 0 /\ NodeLen(parent) > child_index - 1
    THEN With(get_child(parent, child_index - 1), LAMBDA left_sibling :
         With(get_key_value_pair(parent, child_index - 1), LAMBDA separator :
         With(insert_all_key_values(
                  insert_key_value(left_sibling, separator.key, separator.value),
                  child.key_value_pairs),
              LAMBDA left1 :
             [node |-> remove_child(
                           set_child(remove_key_value_pair(parent, child_index - 1),
                                     child_index - 1,
                                     [left1 EXCEPT !.children = @ \o child.children]),
                           child_index),
              steps |-> {<<"merge_with_left_sibling", Kind(child)>>}])))
    ELSE IF /\ child_index < Len(parent.children) - 1
            /\ NodeLen(get_child(parent, child_index + 1)) > t - 1
    THEN [node |-> borrow_from_right_sibling(parent, child_index),
          steps |-> {<<"borrow_from_right_sibling", Kind(child)>>}]
    ELSE IF child_index < Len(parent.children) - 1 /\ NodeLen(parent) > child_index
    THEN [node |-> merge_with_right_sibling(parent, child_index, t),
          steps |-> {<<"merge_with_right_sibling", Kind(child)>>}]
    ELSE [node |-> parent, steps |-> {}])

\* A faulty _fix_underflow that tries the right sibling before the left
\* one; RepairPriority does not survive it.
fix_underflow_right_first(parent, child_index, t) ==
    IF child_index >= Len(parent.children) \/ NodeLen(parent) = 0
    THEN [node |-> parent, steps |-> {}]
    ELSE With(get_child(parent, child_index), LAMBDA child :
    IF NodeLen(child) >= t - 1
    THEN [node |-> parent, steps |-> {}]
    ELSE IF /\ child_index < Len(parent.children) - 1
            /\ NodeLen(get_child(parent, child_index + 1)) > t - 1
    THEN [node |-> borrow_from_right_sibling(parent, child_index),
          steps |-> {<<"borrow_from_right_sibling", Kind(child)>>}]
    ELSE IF /\ child_index > 0
            /\ NodeLen(get_child(parent, child_index - 1)) > t - 1
    THEN [node |-> borrow_from_left_sibling(parent, child_index),
          steps |-> {<<"borrow_from_left_sibling", Kind(child)>>}]
    ELSE IF child_index > 0 /\ NodeLen(parent) > child_index - 1
    THEN [node |-> merge_with_left_sibling(parent, child_index, t),
          steps |-> {<<"merge_with_left_sibling", Kind(child)>>}]
    ELSE IF child_index < Len(parent.children) - 1 /\ NodeLen(parent) > child_index
    THEN [node |-> merge_with_right_sibling(parent, child_index, t),
          steps |-> {<<"merge_with_right_sibling", Kind(child)>>}]
    ELSE [node |-> parent, steps |-> {}])

\* _fix_underflow(parent, child_index): the repaired parent, and the steps
\* taken (the repair function called, with the kind of the repaired child).
fix_underflow(parent, child_index, t) ==
    IF child_index >= Len(parent.children) \/ NodeLen(parent) = 0
    THEN [node |-> parent, steps |-> {}]
    ELSE With(get_child(parent, child_index), LAMBDA child :
    IF NodeLen(child) >= t - 1
    THEN [node |-> parent, steps |-> {}]
    ELSE IF /\ child_index > 0
            /\ NodeLen(get_child(parent, child_index - 1)) > t - 1
    THEN [node |-> borrow_from_left_sibling(parent, child_index),
          steps |-> {<<"borrow_from_left_sibling", Kind(child)>>}]
    ELSE IF /\ child_index < Len(parent.children) - 1
            /\ NodeLen(get_child(parent, child_index + 1)) > t - 1
    THEN [node |-> borrow_from_right_sibling(parent, child_index),
          steps |-> {<<"borrow_from_right_sibling", Kind(child)>>}]
    ELSE IF child_index > 0 /\ NodeLen(parent) > child_index - 1
    THEN [node |-> merge_with_left_sibling(parent, child_index, t),
          steps |-> {<<"merge_with_left_sibling", Kind(child)>>}]
    ELSE IF child_index < Len(parent.children) - 1 /\ NodeLen(parent) > child_index
    THEN [node |-> merge_with_right_sibling(parent, child_index, t),
          steps |-> {<<"merge_with_right_sibling", Kind(child)>>}]
    ELSE [node |-> parent, steps |-> {}])

\* The successor walk of _delete_from_node: leftmost descent that stops at a
\* leaf or at a non-leaf without children.
RECURSIVE successor_walk(_)
successor_walk(node) ==
    IF (~node.is_leaf) /\ Len(node.children) # 0
    THEN successor_walk(get_child(node, 0))
    ELSE node

\* The predecessor walk of _delete_from_node: rightmost descent.
RECURSIVE predecessor_walk(_)
predecessor_walk(node) ==
    IF (~node.is_leaf) /\ Len(node.children) # 0
    THEN predecessor_walk(get_child(node, Len(node.children) - 1))
    ELSE node

\* A faulty check after a recursive delete that never repairs the child;
\* PredecessorNeverUsed does not survive it.
repair_child_skipped(current, index, t) ==
    [node |-> current, steps |-> {}]

\* The check-and-repair that follows each recursive delete:
\*   if index < len(current.children) and len(child) < t - 1: _fix_underflow
repair_child(current, index, t) ==
    IF /\ index < Len(current.children)
       /\ NodeLen(get_child(current, index)) < t - 1
    THEN fix_underflow(current, index, t)
    ELSE [node |-> current, steps |-> {}]

\* _delete_from_node(current, key): the rewritten node, the value returned,
\* the number of times size was decremented and the steps taken.
RECURSIVE delete_from_node(_, _, _)

\* A faulty leaf deletion that forgets  self._size -= 1 ; SizeIsEntryCount
\* does not survive it.
delete_from_leaf_size_kept(current, key_index) ==
    [node |-> remove_key_value_pair(current, key_index),
     result |-> get_value(current, key_index),
     removed |-> 0,
     steps |-> {<<"remove", "leaf">>}]

\* _delete_from_node, key found at key_index of the leaf current.
delete_from_leaf(current, key_index) ==
    [node |-> remove_key_value_pair(current, key_index),
     result |-> get_value(current, key_index),
     removed |-> 1,
     steps |-> {<<"remove", "leaf">>}]

\* A faulty successor replacement that returns what the recursive delete of
\* the successor returned; DeleteReturnsSearched does not survive it.
delete_via_successor_returns_inner(current, key_index, successor_node, t) ==
    With(insert_key_value(remove_key_value_pair(current, key_index),
                          get_key(successor_node, 0), get_value(successor_node, 0)),
         LAMBDA current1 :
    With(delete_from_node(get_child(current1, key_index + 1),
                          get_key(successor_node, 0), t),
         LAMBDA r :
    With(repair_child(set_child(current1, key_index + 1, r.node), key_index + 1, t),
         LAMBDA fixed :
        [node |-> fixed.node,
         result |-> r.result,
         removed |-> r.removed,
         steps |-> {<<"successor", "internal">>} \cup r.steps \cup fixed.steps])))

\* _delete_from_node, key found at key_index of the internal node current,
\* successor_node holds an entry: replace by the successor, delete the
\* successor below, repair, and return the value the key had.
delete_via_successor(current, key_index, successor_node, t) ==
    With(insert_key_value(remove_key_value_pair(current, key_index),
                          get_key(successor_node, 0), get_value(successor_node, 0)),
         LAMBDA current1 :
    With(delete_from_node(get_child(current1, key_index + 1),
                          get_key(successor_node, 0), t),
         LAMBDA r :
    With(repair_child(set_child(current1, key_index + 1, r.node), key_index + 1, t),
         LAMBDA fixed :
        [node |-> fixed.node,
         result |-> get_value(current, key_index),
         removed |-> r.removed,
         steps |-> {<<"successor", "internal">>} \cup r.steps \cup fixed.steps])))

\* _delete_from_node, key found at key_index of the internal node current,
\* successor_node holds no entry but predecessor_node does.
delete_via_predecessor(current, key_index, predecessor_node, t) ==
    With(get_key_value_pair(predecessor_node, NodeLen(predecessor_node) - 1),
         LAMBDA pred :
    With(insert_key_value(remove_key_value_pair(current, key_index),
                          pred.key, pred.value),
         LAMBDA current1 :
    With(delete_from_node(get_child(current1, key_index), pred.key, t),
         LAMBDA r :
    With(repair_child(set_child(current1, key_index, r.node), key_index, t),
         LAMBDA fixed :
        [node |-> fixed.node,
         result |-> get_value(current, key_index),
         removed |-> r.removed,
         steps |-> {<<"predecessor", "internal">>} \cup r.steps \cup fixed.steps]))))

delete_from_node(current, key, t) ==
    With(find_key_index(current, key), LAMBDA key_index :
        IF key_index >= 0
        THEN IF current.is_leaf
             THEN delete_from_leaf(current, key_index)
             ELSE With(successor_walk(get_child(current, key_index + 1)),
                       LAMBDA successor_node :
                  IF NodeLen(successor_node) > 0
                  THEN delete_via_successor(current, key_index, successor_node, t)
                  ELSE With(predecessor_walk(get_child(current, key_index)),
                            LAMBDA predecessor_node :
                       IF NodeLen(predecessor_node) > 0
                       THEN delete_via_predecessor(current, key_index,
                                                   predecessor_node, t)
                       ELSE [node |-> remove_key_value_pair(current, key_index),
                             result |-> get_value(current, key_index),
                             removed |-> 1,
                             steps |-> {<<"remove", "internal">>}]))
        ELSE IF ~current.is_leaf
        THEN With(get_child_index(current, key), LAMBDA child_index :
             With(delete_from_node(get_child(current, child_index), key, t),
                  LAMBDA r :
             With(repair_child(set_child(current, child_index, r.node),
                               child_index, t),
                  LAMBDA fixed :
                 [node |-> fixed.node,
                  result |-> r.result,
                  removed |-> r.removed,
                  steps |-> r.steps \cup fixed.steps])))
        ELSE [node |-> current, result |-> None, removed |-> 0, steps |-> {}])

\* A faulty delete that decrements the size itself, whether or not
\* _delete_from_node found the key; DeleteMissChangesNothing does not
\* survive it.
delete_counts_every_call(rt, sz, t, key) ==
    IF is_empty(sz)
    THEN [root |-> rt, size |-> sz, result |-> None, steps |-> {}]
    ELSE With(delete_from_node(rt, key, t), LAMBDA r :
             IF NodeLen(r.node) = 0 /\ ~r.node.is_leaf
             THEN [root |-> get_child(r.node, 0),
                   size |-> sz - 1,
                   result |-> r.result,
                   steps |-> r.steps \cup {<<"root_collapse", "internal">>}]
             ELSE [root |-> r.node,
                   size |-> sz - 1,
                   result |-> r.result,
                   steps |-> r.steps])

\* A faulty delete that leaves an emptied non-leaf root in place;
\* RootEmptyOnlyWhenTreeEmpty does not survive it.
delete_root_kept(rt, sz, t, key) ==
    IF is_empty(sz)
    THEN [root |-> rt, size |-> sz, result |-> None, steps |-> {}]
    ELSE With(delete_from_node(rt, key, t), LAMBDA r :
             [root |-> r.node,
              size |-> sz - r.removed,
              result |-> r.result,
              steps |-> r.steps])

\* BTreeIndex.delete: the new root, the new size, the value returned and the
\* steps taken.
delete(rt, sz, t, key) ==
    IF is_empty(sz)
    THEN [root |-> rt, size |-> sz, result |-> None, steps |-> {}]
    ELSE With(delete_from_node(rt, key, t), LAMBDA r :
             IF NodeLen(r.node) = 0 /\ ~r.node.is_leaf
             THEN [root |-> get_child(r.node, 0),
                   size |-> sz - r.removed,
                   result |-> r.result,
                   steps |-> r.steps \cup {<<"root_collapse", "internal">>}]
             ELSE [root |-> r.node,
                   size |-> sz - r.removed,
                   result |-> r.result,
                   steps |-> r.steps])

\* No call is in progress: between two public calls, and throughout the
\* runs that take each public call as one step.
NoCall ==
    [pc |-> "idle", key |-> None, value |-> None, path |-> <<>>,
     walk |-> <<>>, nested |-> FALSE, start |-> <<>>]

\* ------------------------------------------------------------ specification
\* A run starts either from the tree as constructed (empty) and makes up to
\* MaxCalls calls with keys 1..MaxKey, or from a tree that TallKeys earlier
\* inserts have built (keys in ascending or in descending order, value 1),
\* and makes up to TallCalls further calls with keys 1..TallMaxKey, or from
\* the tree that the inserts of DenseKeys have built.  The
\* second kind reaches the trees of height 3 of min degree 2, whose internal
\* nodes are split, borrowed from and merged.

\* The tree after insert(key, 1) for each key of key_sequence, from rt / sz.
RECURSIVE tree_after_inserts(_, _, _, _)
tree_after_inserts(rt, sz, t, key_sequence) ==
    IF key_sequence = <<>>
    THEN [root |-> rt, size |-> sz]
    ELSE With(insert(rt, sz, t, Head(key_sequence), 1), LAMBDA r :
             tree_after_inserts(r.root, r.size, t, Tail(key_sequence)))

AscendingKeys == [i \in 1..TallKeys |-> i]
DescendingKeys == [i \in 1..TallKeys |-> TallMaxKey + 1 - i]

InitFresh ==
    /\ min_degree \in MinDegrees
    /\ root = BTreeNode(min_degree, TRUE)
    /\ size = 0
    /\ ref = [k \in AllKeys |-> None]
    /\ left = MaxCalls
    /\ max_key = MaxKey

InitTall ==
    \E t \in MinDegrees, key_sequence \in {AscendingKeys, DescendingKeys} :
    \E built \in {tree_after_inserts(BTreeNode(t, TRUE), 0, t, key_sequence)} :
        /\ min_degree = t
        /\ root = built.root
        /\ size = built.size
        /\ ref = [k \in AllKeys |->
                     IF \E i \in DOMAIN key_sequence : key_sequence[i] = k
                     THEN 1 ELSE None]
        /\ left = TallCalls
        /\ max_key = TallMaxKey

InitDense ==
    \E t \in MinDegrees :
    \E built \in {tree_after_inserts(BTreeNode(t, TRUE), 0, t, DenseKeys)} :
        /\ min_degree = t
        /\ root = built.root
        /\ size = built.size
        /\ ref = [k \in AllKeys |->
                     IF \E i \in DOMAIN DenseKeys : DenseKeys[i] = k
                     THEN 1 ELSE None]
        /\ left = TallCalls
        /\ max_key = DenseMaxKey

Init ==
    /\ InitFresh \/ InitTall \/ InitDense
    /\ op = <<"init", None, None>>
    /\ ret = None
    /\ raised = "none"
    /\ steps = {}
    /\ call = NoCall

Insert(key, value) ==
    /\ left > 0
    /\ \E r \in {insert(root, size, min_degree, key, value)} :
        /\ left' = left - 1
        /\ root' = r.root
        /\ size' = r.size
        /\ op' = <<"insert", key, value>>
        /\ ret' = r.result
        /\ raised' = "none"
        /\ steps' = r.steps
        /\ ref' = [ref EXCEPT ![key] = value]
        /\ UNCHANGED <<min_degree, max_key, call>>

Delete(key) ==
    /\ left > 0
    /\ \E r \in {delete(root, size, min_degree, key)} :
        /\ left' = left - 1
        /\ root' = r.root
        /\ size' = r.size
        /\ op' = <<"delete", key, None>>
        /\ ret' = r.result
        /\ raised' = "none"
        /\ steps' = r.steps
        /\ ref' = [ref EXCEPT ![key] = None]
        /\ UNCHANGED <<min_degree, max_key, call>>

Next ==
    \/ \E key \in 1..max_key, value \in Values : Insert(key, value)
    \/ \E key \in 1..max_key : Delete(key)

Spec == Init /\ [][Next]_vars

\* -------------------------------------------- runs of distinct-key inserts
\* A run that starts from the empty tree and only inserts keys that the tree
\* does not hold, each with any value: every order of every set of pairs
\* over the keys 1..DistinctKeys.
InitDistinct ==
    /\ min_degree \in MinDegrees
    /\ root = BTreeNode(min_degree, TRUE)
    /\ size = 0
    /\ ref = [k \in AllKeys |-> None]
    /\ left = DistinctKeys
    /\ max_key = DistinctKeys
    /\ op = <<"init", None, None>>
    /\ ret = None
    /\ raised = "none"
    /\ steps = {}
    /\ call = NoCall

InsertNew(key, value) == ref[key] = None /\ Insert(key, value)

NextDistinct == \E key \in 1..max_key, value \in Values : InsertNew(key, value)

SpecDistinct == InitDistinct /\ [][NextDistinct]_vars

\* The tree after insert(key, value) for each <<key, value>> of pairs.
RECURSIVE tree_after_pairs(_, _, _, _)
tree_after_pairs(rt, sz, t, pairs) ==
    IF pairs = <<>>
    THEN [root |-> rt, size |-> sz]
    ELSE With(insert(rt, sz, t, Head(pairs)[1], Head(pairs)[2]), LAMBDA r :
             tree_after_pairs(r.root, r.size, t, Tail(pairs)))

\* ----------------------------------------------- construction, null keys
\* object.__setattr__ takes (self, name, value).  Reached through a super()
\* object it is bound and self is supplied; reached through the type
\* `super` it is not bound, the first argument written is taken for self
\* and one argument is missing: TypeError.
setattr_of_object(arguments) ==
    IF Len(arguments) = 3 THEN "none" ELSE "TypeError"

\* BTreeNode.__init__ as written: the exception raised ("none" if none) and
\* the node created.
BTreeNode_init(d, is_leaf) ==
    IF d < 2
    THEN [raised |-> "ValueError", created |-> FALSE,
          node |-> BTreeNode(d, is_leaf)]
    ELSE With(setattr_of_object(<<"_min_degree", d>>), LAMBDA error :
             [raised |-> error, created |-> error = "none",
              node |-> BTreeNode(d, is_leaf)])

\* BTreeIndex.__init__ as written: the exception raised ("none" if none) and
\* the root and size of the tree created.
BTreeIndex_init(d) ==
    IF d < 2
    THEN [raised |-> "ValueError", created |-> FALSE,
          root |-> BTreeNode(d, TRUE), size |-> 0]
    ELSE With(setattr_of_object(<<"self", "_min_degree", d>>), LAMBDA error :
         With(BTreeNode_init(d, TRUE), LAMBDA made :
             [raised |-> IF error # "none" THEN error ELSE made.raised,
              created |-> error = "none" /\ made.created,
              root |-> made.node, size |-> 0]))

\* The descent of insert(None, value) from current.  A node that holds an
\* entry compares it with None in bisect_left: TypeError.  An empty leaf
\* reaches KeyValuePair(None, value): ValueError, raised before the pair is
\* put into the list.  An empty non-leaf node sends the descent to child 0.
RECURSIVE insert_descend_null_key(_, _, _)
insert_descend_null_key(current, value, t) ==
    IF NodeLen(current) > 0
    THEN [node |-> current, raised |-> "TypeError"]
    ELSE IF current.is_leaf
    THEN [node |-> current, raised |-> "ValueError"]
    ELSE IF current.children = <<>>
    THEN [node |-> current, raised |-> "IndexError"]
    ELSE With(IF is_full(get_child(current, 0))
              THEN split_node(current, 0, t)
              ELSE current,
              LAMBDA current1 :
         IF NodeLen(current1) > 0
         THEN [node |-> current1, raised |-> "TypeError"]
         ELSE With(insert_descend_null_key(get_child(current1, 0), value, t),
                   LAMBDA r :
                  [node |-> set_child(current1, 0, r.node), raised |-> r.raised]))

\* BTreeIndex.insert(None, value): the root and the size it leaves, the
\* exception it raises and the steps taken before that.
insert_null_key(rt, sz, t, value) ==
    IF is_empty(sz)
    THEN [root |-> rt, size |-> sz,
          raised |-> IF NodeLen(rt) > 0 THEN "TypeError" ELSE "ValueError",
          steps |-> {}]
    ELSE With(IF is_full(rt)
              THEN split_node(insert_child(BTreeNode(t, FALSE), 0, rt), 0, t)
              ELSE rt,
              LAMBDA root1 :
         With(insert_descend_null_key(root1, value, t), LAMBDA r :
             [root |-> r.node, size |-> sz, raised |-> r.raised,
              steps |-> IF is_full(rt) THEN {<<"split_root", Kind(rt)>>} ELSE {}]))

\* A run that starts from the empty tree and also inserts null values,
\* calls insert with a null key and calls the constructor.
InitEdge ==
    /\ min_degree \in MinDegrees
    /\ root = BTreeNode(min_degree, TRUE)
    /\ size = 0
    /\ ref = [k \in AllKeys |-> None]
    /\ left = EdgeCalls
    /\ max_key = MaxKey
    /\ op = <<"init", None, None>>
    /\ ret = None
    /\ raised = "none"
    /\ steps = {}
    /\ call = NoCall

InsertNullKey(value) ==
    /\ left > 0
    /\ \E r \in {insert_null_key(root, size, min_degree, value)} :
        /\ left' = left - 1
        /\ root' = r.root
        /\ size' = r.size
        /\ op' = <<"insert", None, value>>
        /\ ret' = None
        /\ raised' = r.raised
        /\ steps' = r.steps
        /\ UNCHANGED <<min_degree, max_key, ref, call>>

\* tree = BTreeIndex(d): on success the new tree is the tree of the run, on
\* failure nothing is created and the run keeps the tree it has.
New(d) ==
    /\ left > 0
    /\ \E made \in {BTreeIndex_init(d)} :
        /\ left' = left - 1
        /\ op' = <<"new", d, None>>
        /\ ret' = None
        /\ raised' = made.raised
        /\ steps' = {}
        /\ IF made.created
           THEN /\ min_degree' = d
                /\ root' = made.root
                /\ size' = made.size
                /\ ref' = [k \in AllKeys |-> None]
           ELSE UNCHANGED <<min_degree, root, size, ref>>
        /\ UNCHANGED <<max_key, call>>

NextEdge ==
    \/ \E key \in 1..max_key, value \in Values \cup {None} : Insert(key, value)
    \/ \E key \in 1..max_key : Delete(key)
    \/ \E value \in Values : InsertNullKey(value)
    \/ \E d \in 0..MaxDegree : New(d)

SpecEdge == InitEdge /\ [][NextEdge]_vars

\* ------------------------------------------------- a node as an object
\* list[index] and list.pop(index) raise IndexError exactly when index is
\* not in -len..len-1; an index in -len..-1 counts from the end.
index_out_of_range(s, index) == index >= Len(s) \/ index < -Len(s)

\* A positional read of a node (get_key, get_value, get_key_value_pair,
\* get_child): what it returns and the exception it raises.
node_get(node, name, index) ==
    With(IF name = "get_child" THEN node.children ELSE node.key_value_pairs,
         LAMBDA list :
        IF index_out_of_range(list, index)
        THEN [node |-> node, result |-> None, raised |-> "IndexError"]
        ELSE [node |-> node,
              result |-> IF name = "get_key" THEN get_key(node, index)
                         ELSE IF name = "get_value" THEN get_value(node, index)
                         ELSE IF name = "get_key_value_pair"
                              THEN get_key_value_pair(node, index)
                         ELSE get_child(node, index),
              raised |-> "none"])

\* A positional removal from a node (remove_key_value_pair, remove_child):
\* the node that is left, the element returned, the exception raised.
node_remove(node, name, index) ==
    IF name = "remove_child"
    THEN IF index_out_of_range(node.children, index)
         THEN [node |-> node, result |-> None, raised |-> "IndexError"]
         ELSE [node |-> remove_child(node, index),
               result |-> get_child(node, index), raised |-> "none"]
    ELSE IF index_out_of_range(node.key_value_pairs, index)
         THEN [node |-> node, result |-> None, raised |-> "IndexError"]
         ELSE [node |-> remove_key_value_pair(node, index),
               result |-> get_key_value_pair(node, index), raised |-> "none"]

\* BTreeNode.__setattr__(name, value) and, below it, object.__setattr__:
\* the four slots are stored, is_leaf is a property whose setter assigns
\* self.is_leaf again, any other name has no place in a slotted object.
\* frames is the number of nested calls the interpreter still allows.
RECURSIVE node_setattr(_, _, _, _)
node_setattr(node, name, value, frames) ==
    IF frames = 0
    THEN [node |-> node, raised |-> "RecursionError"]
    ELSE IF name = "min_degree"
    THEN [node |-> node, raised |-> "AttributeError"]
    ELSE IF name = "_min_degree"
    THEN [node |-> [node EXCEPT !.min_degree = value], raised |-> "none"]
    ELSE IF name = "_is_leaf"
    THEN [node |-> [node EXCEPT !.is_leaf = value], raised |-> "none"]
    ELSE IF name = "is_leaf"
    THEN node_setattr(node, "is_leaf", value, frames - 1)
    ELSE [node |-> node, raised |-> "AttributeError"]

\* BTreeIndex.__setattr__(name, value) for the names of min_degree:
\* _min_degree is refused by the guard, min_degree is a property without a
\* setter.
tree_setattr(t, name, value) ==
    IF name = "_min_degree"
    THEN [min_degree |-> t, raised |-> "AttributeError"]
    ELSE IF name = "min_degree"
    THEN [min_degree |-> t, raised |-> "AttributeError"]
    ELSE [min_degree |-> t, raised |-> "none"]

\* A run on one node, the root node of a new tree: entries and children are
\* put into it through the node's own methods, it is read and shortened by
\* position, searched by key, and its attributes and the tree's are
\* assigned.
InitNode ==
    /\ min_degree \in MinDegrees
    /\ \E is_leaf \in BOOLEAN : root = BTreeNode(min_degree, is_leaf)
    /\ size = 0
    /\ ref = [k \in AllKeys |-> None]
    /\ left = NodeCalls
    /\ max_key = NodeMaxKey
    /\ op = <<"init", None, None>>
    /\ ret = None
    /\ raised = "none"
    /\ steps = {}
    /\ call = NoCall

NodeIndices == (-NodeCalls)..NodeCalls

\* What a call on the node leaves alone.
NodeCallFrame ==
    /\ left > 0
    /\ left' = left - 1
    /\ steps' = {}
    /\ UNCHANGED <<size, ref, max_key, call>>

NodeInsertKeyValue(key, value) ==
    /\ NodeCallFrame
    /\ root' = insert_key_value(root, key, value)
    /\ op' = <<"insert_key_value", key, value>>
    /\ ret' = None
    /\ raised' = "none"
    /\ UNCHANGED min_degree

\* insert_child(index, child) with a child that holds the one key `key`.
NodeInsertChild(index, key) ==
    /\ NodeCallFrame
    /\ root' = insert_child(root, index,
                            insert_key_value(BTreeNode(min_degree, TRUE), key, 1))
    /\ op' = <<"insert_child", index, key>>
    /\ ret' = None
    /\ raised' = "none"
    /\ UNCHANGED min_degree

NodeGet(name, index) ==
    /\ NodeCallFrame
    /\ \E r \in {node_get(root, name, index)} :
        /\ root' = r.node
        /\ ret' = r.result
        /\ raised' = r.raised
    /\ op' = <<name, index, None>>
    /\ UNCHANGED min_degree

NodeRemove(name, index) ==
    /\ NodeCallFrame
    /\ \E r \in {node_remove(root, name, index)} :
        /\ root' = r.node
        /\ ret' = r.result
        /\ raised' = r.raised
    /\ op' = <<name, index, None>>
    /\ UNCHANGED min_degree

NodeFindKeyIndex(key) ==
    /\ NodeCallFrame
    /\ ret' = find_key_index(root, key)
    /\ op' = <<"find_key_index", key, None>>
    /\ raised' = "none"
    /\ UNCHANGED <<root, min_degree>>

NodeGetChildIndex(key) ==
    /\ NodeCallFrame
    /\ ret' = get_child_index(root, key)
    /\ op' = <<"get_child_index", key, None>>
    /\ raised' = "none"
    /\ UNCHANGED <<root, min_degree>>

\* node.<name> = value
NodeSetattr(name, value) ==
    /\ NodeCallFrame
    /\ \E r \in {node_setattr(root, name, value, RecursionLimit)} :
        /\ root' = r.node
        /\ raised' = r.raised
    /\ op' = <<"node_setattr", name, value>>
    /\ ret' = None
    /\ UNCHANGED min_degree

\* tree.<name> = value
TreeSetattr(name, value) ==
    /\ NodeCallFrame
    /\ \E r \in {tree_setattr(min_degree, name, value)} :
        /\ min_degree' = r.min_degree
        /\ raised' = r.raised
    /\ op' = <<"tree_setattr", name, value>>
    /\ ret' = None
    /\ UNCHANGED root

NextNode ==
    \/ \E key \in 1..max_key, value \in Values : NodeInsertKeyValue(key, value)
    \/ \E index \in NodeIndices, key \in 1..max_key : NodeInsertChild(index, key)
    \/ \E name \in {"get_key", "get_value", "get_key_value_pair", "get_child"},
          index \in NodeIndices : NodeGet(name, index)
    \/ \E name \in {"remove_key_value_pair", "remove_child"},
          index \in NodeIndices : NodeRemove(name, index)
    \/ \E key \in 1..max_key : NodeFindKeyIndex(key)
    \/ \E key \in 1..max_key : NodeGetChildIndex(key)
    \/ \E name \in {"min_degree", "_min_degree"}, value \in MinDegrees :
          NodeSetattr(name, value)
    \/ \E name \in {"is_leaf", "_is_leaf"}, value \in BOOLEAN :
          NodeSetattr(name, value)
    \/ \E name \in {"min_degree", "_min_degree"}, value \in MinDegrees :
          TreeSetattr(name, value)

SpecNode == InitNode /\ [][NextNode]_vars

\* ------------------------------------------------- calls followed step by step
\* The loops and the recursion of search, insert and delete, one iteration or
\* one frame per step.  `current` of the code is the node that call.path
\* leads to from the root; for delete the prefixes of call.path are the
\* frames of _delete_from_node that have not returned.
RECURSIVE node_at(_, _)
node_at(node, path) ==
    IF path = <<>>
    THEN node
    ELSE node_at(get_child(node, Head(path)), Tail(path))

\* The tree after a write to the node that path leads to.
RECURSIVE with_node_at(_, _, _)
with_node_at(node, path, new_node) ==
    IF path = <<>>
    THEN new_node
    ELSE set_child(node, Head(path),
                   with_node_at(get_child(node, Head(path)), Tail(path), new_node))

\* A faulty descent that stays at the node it is at.
descend_stays(path, child_index) == path

\* current = current.get_child(child_index), and the recursive call
\* _delete_from_node(current.get_child(child_index), key).
descend(path, child_index) == Append(path, child_index)

\* What a step inside a call leaves alone.
StepFrame == UNCHANGED <<min_degree, op, raised, ref, left, max_key>>

\* A public call begins.
BeginFrame(name, key, value) ==
    /\ call.pc = "idle"
    /\ left > 0
    /\ left' = left - 1
    /\ op' = <<name, key, value>>
    /\ raised' = "none"
    /\ UNCHANGED <<min_degree, max_key>>

\* The call in progress just after it has begun; start keeps the root and
\* the size the call found.
Started(pc, key, value) ==
    [NoCall EXCEPT !.pc = pc, !.key = key, !.value = value,
                   !.start = <<root, size>>]

\* search(key) up to the loop.
BeginSearch(key) ==
    /\ BeginFrame("search", key, None)
    /\ ret' = None
    /\ steps' = {}
    /\ call' = IF is_empty(size) THEN NoCall ELSE Started("search", key, None)
    /\ UNCHANGED <<root, size, ref>>

\* One iteration of the loop of search.
SearchStep ==
    /\ call.pc = "search"
    /\ \E current \in {node_at(root, call.path)} :
       \E index \in {find_key_index(current, call.key)} :
          IF index >= 0
          THEN ret' = get_value(current, index) /\ call' = NoCall
          ELSE IF current.is_leaf
          THEN ret' = None /\ call' = NoCall
          ELSE /\ ret' = ret
               /\ call' = [call EXCEPT !.path =
                              descend(@, get_child_index(current, call.key))]
    /\ StepFrame
    /\ UNCHANGED <<root, size, steps>>

\* A faulty beginning of insert that leaves a full root as it is;
\* ChildSplitParentHasRoom does not survive it.
BeginInsertRootKept(key, value) ==
    /\ BeginFrame("insert", key, value)
    /\ ref' = [ref EXCEPT ![key] = value]
    /\ ret' = None
    /\ IF is_empty(size)
       THEN \E r \in {insert_into_empty(root, size, key, value)} :
               /\ root' = r.root /\ size' = r.size /\ steps' = r.steps
               /\ call' = NoCall
       ELSE /\ root' = root
            /\ size' = size
            /\ steps' = {}
            /\ call' = Started("insert", key, value)

\* insert(key, value) up to the loop: the empty tree, the split of a full
\* root.
BeginInsert(key, value) ==
    /\ BeginFrame("insert", key, value)
    /\ ref' = [ref EXCEPT ![key] = value]
    /\ ret' = None
    /\ IF is_empty(size)
       THEN \E r \in {insert_into_empty(root, size, key, value)} :
               /\ root' = r.root /\ size' = r.size /\ steps' = r.steps
               /\ call' = NoCall
       ELSE /\ root' = IF is_full(root)
                       THEN split_node(insert_child(BTreeNode(min_degree, FALSE), 0, root),
                                       0, min_degree)
                       ELSE root
            /\ size' = size
            /\ steps' = IF is_full(root) THEN {<<"split_root", Kind(root)>>} ELSE {}
            /\ call' = Started("insert", key, value)

\* One iteration of the loop of insert.
InsertStep ==
    /\ call.pc = "insert"
    /\ StepFrame
    /\ \E current \in {node_at(root, call.path)} :
       \E key_index \in {find_key_index(current, call.key)} :
          IF key_index >= 0
          THEN /\ root' = with_node_at(root, call.path,
                                       set_value(current, key_index, call.value))
               /\ ret' = get_value(current, key_index)
               /\ size' = size
               /\ steps' = steps \cup {<<"update", Kind(current)>>}
               /\ call' = NoCall
          ELSE IF current.is_leaf
          THEN /\ root' = with_node_at(root, call.path,
                                       insert_key_value(current, call.key, call.value))
               /\ ret' = None
               /\ size' = size + 1
               /\ steps' = steps \cup {<<"add", "leaf">>}
               /\ call' = NoCall
          ELSE \E first_index \in {get_child_index(current, call.key)} :
               \E child \in {get_child(current, first_index)} :
               \E current1 \in {IF is_full(child)
                                THEN split_node(current, first_index, min_degree)
                                ELSE current} :
                  /\ root' = with_node_at(root, call.path, current1)
                  /\ ret' = ret
                  /\ size' = size
                  /\ steps' = steps \cup (IF is_full(child)
                                          THEN {<<"split_child", Kind(child)>>}
                                          ELSE {})
                  /\ call' = [call EXCEPT !.path =
                                 descend(@, get_child_index(current1, call.key))]

\* delete(key) up to the call of _delete_from_node on the root.
BeginDelete(key) ==
    /\ BeginFrame("delete", key, None)
    /\ ref' = [ref EXCEPT ![key] = None]
    /\ ret' = None
    /\ steps' = {}
    /\ call' = IF is_empty(size) THEN NoCall ELSE Started("delete", key, None)
    /\ UNCHANGED <<root, size>>

\* A frame of _delete_from_node from its entry to its first loop, its
\* recursive call or its return.  Only the value of the outermost frame that
\* finds its key reaches the caller of delete: the frames below it are calls
\* whose result the code drops (call.nested).
DeleteStep ==
    /\ call.pc = "delete"
    /\ StepFrame
    /\ \E current \in {node_at(root, call.path)} :
       \E key_index \in {find_key_index(current, call.key)} :
          IF key_index >= 0 /\ current.is_leaf
          THEN /\ root' = with_node_at(root, call.path,
                                       remove_key_value_pair(current, key_index))
               /\ size' = size - 1
               /\ ret' = IF call.nested THEN ret ELSE get_value(current, key_index)
               /\ steps' = steps \cup {<<"remove", "leaf">>}
               /\ call' = [call EXCEPT !.pc = "return"]
          ELSE IF key_index >= 0
          THEN /\ ret' = IF call.nested THEN ret ELSE get_value(current, key_index)
               /\ call' = [call EXCEPT !.pc = "successor",
                                       !.walk = descend(call.path, key_index + 1),
                                       !.nested = TRUE]
               /\ UNCHANGED <<root, size, steps>>
          ELSE IF ~current.is_leaf
          THEN /\ call' = [call EXCEPT !.path =
                              descend(@, get_child_index(current, call.key))]
               /\ UNCHANGED <<root, size, ret, steps>>
          ELSE /\ ret' = IF call.nested THEN ret ELSE None
               /\ call' = [call EXCEPT !.pc = "return"]
               /\ UNCHANGED <<root, size, steps>>

\* The frame that found its key in an internal node: one iteration of the
\* loop to the successor or to the predecessor, or, once the loop has ended,
\* the replacement of the entry and the recursive call.
WalkStep ==
    /\ call.pc \in {"successor", "predecessor"}
    /\ StepFrame
    /\ ret' = ret
    /\ \E current \in {node_at(root, call.path)} :
       \E key_index \in {find_key_index(current, call.key)} :
       \E reached \in {node_at(root, call.walk)} :
          IF (~reached.is_leaf) /\ Len(reached.children) # 0
          THEN /\ call' = [call EXCEPT !.walk =
                              descend(@, IF call.pc = "successor"
                                         THEN 0
                                         ELSE Len(reached.children) - 1)]
               /\ UNCHANGED <<root, size, steps>>
          ELSE IF NodeLen(reached) > 0
          THEN \E entry \in {IF call.pc = "successor"
                             THEN get_key_value_pair(reached, 0)
                             ELSE get_key_value_pair(reached, NodeLen(reached) - 1)} :
               \E child_index \in {IF call.pc = "successor"
                                   THEN key_index + 1 ELSE key_index} :
                  /\ root' = with_node_at(root, call.path,
                                 insert_key_value(
                                     remove_key_value_pair(current, key_index),
                                     entry.key, entry.value))
                  /\ size' = size
                  /\ steps' = steps \cup {<<call.pc, "internal">>}
                  /\ call' = [call EXCEPT !.pc = "delete",
                                          !.key = entry.key,
                                          !.path = descend(@, child_index),
                                          !.walk = <<>>]
          ELSE IF call.pc = "successor"
          THEN /\ call' = [call EXCEPT !.pc = "predecessor",
                                       !.walk = descend(call.path, key_index)]
               /\ UNCHANGED <<root, size, steps>>
          ELSE /\ root' = with_node_at(root, call.path,
                                       remove_key_value_pair(current, key_index))
               /\ size' = size - 1
               /\ steps' = steps \cup {<<"remove", "internal">>}
               /\ call' = [call EXCEPT !.pc = "return", !.walk = <<>>]

\* A faulty last step of delete that puts the first child in the place of
\* the root whenever the root is not a leaf, whatever entries it holds;
\* RootCollapseAndHeight does not survive it.
ReturnStepCollapsesEarly ==
    /\ call.pc = "return"
    /\ StepFrame
    /\ ret' = ret
    /\ size' = size
    /\ IF call.path = <<>>
       THEN /\ IF ~root.is_leaf
               THEN /\ root' = get_child(root, 0)
                    /\ steps' = steps \cup {<<"root_collapse", "internal">>}
               ELSE UNCHANGED <<root, steps>>
            /\ call' = NoCall
       ELSE \E caller \in {SubSeq(call.path, 1, Len(call.path) - 1)} :
            \E fixed \in {repair_child(node_at(root, caller),
                                       call.path[Len(call.path)], min_degree)} :
               /\ root' = with_node_at(root, caller, fixed.node)
               /\ steps' = steps \cup fixed.steps
               /\ call' = [call EXCEPT !.path = caller]

\* A frame of _delete_from_node has returned: its caller checks the child
\* for underflow, repairs it and returns in its turn; the caller of the
\* outermost frame is delete, which drops an emptied non-leaf root.
ReturnStep ==
    /\ call.pc = "return"
    /\ StepFrame
    /\ ret' = ret
    /\ size' = size
    /\ IF call.path = <<>>
       THEN /\ IF NodeLen(root) = 0 /\ ~root.is_leaf
               THEN /\ root' = get_child(root, 0)
                    /\ steps' = steps \cup {<<"root_collapse", "internal">>}
               ELSE UNCHANGED <<root, steps>>
            /\ call' = NoCall
       ELSE \E caller \in {SubSeq(call.path, 1, Len(call.path) - 1)} :
            \E fixed \in {repair_child(node_at(root, caller),
                                       call.path[Len(call.path)], min_degree)} :
               /\ root' = with_node_at(root, caller, fixed.node)
               /\ steps' = steps \cup fixed.steps
               /\ call' = [call EXCEPT !.path = caller]

NextSteps ==
    \/ \E key \in 1..max_key : BeginSearch(key)
    \/ SearchStep
    \/ \E key \in 1..max_key, value \in Values : BeginInsert(key, value)
    \/ InsertStep
    \/ \E key \in 1..max_key : BeginDelete(key)
    \/ DeleteStep
    \/ WalkStep
    \/ ReturnStep

\* A run of calls followed step by step, from the trees the runs of whole
\* calls start from.
SpecSteps == Init /\ [][NextSteps]_vars

\* The calls that build a tree of min degree 3 with a node that holds the
\* key 4 twice: insert(4, 2) meets the full leaf [1,2,4,5,6], whose split
\* promotes 4, and adds a second 4 to the leaf [5,6]; the two deletes move
\* the promoted 4 down again, by a merge, into the leaf [1,2,4,4].
DuplicateBuild ==
    <<<<"insert", 7, 1>>, <<"insert", 9, 1>>, <<"insert", 5, 1>>,
      <<"insert", 4, 1>>, <<"insert", 8, 1>>, <<"insert", 6, 1>>,
      <<"insert", 1, 1>>, <<"insert", 2, 1>>, <<"insert", 4, 2>>,
      <<"delete", 9, None>>, <<"delete", 5, None>>>>

\* The tree after the calls of `calls`, from rt / sz.
RECURSIVE tree_after_calls(_, _, _, _)
tree_after_calls(rt, sz, t, calls) ==
    IF calls = <<>>
    THEN [root |-> rt, size |-> sz]
    ELSE With(IF Head(calls)[1] = "insert"
              THEN insert(rt, sz, t, Head(calls)[2], Head(calls)[3])
              ELSE delete(rt, sz, t, Head(calls)[2]),
              LAMBDA r : tree_after_calls(r.root, r.size, t, Tail(calls)))

\* The reference map after the calls of `calls`.
RECURSIVE ref_after_calls(_, _)
ref_after_calls(map, calls) ==
    IF calls = <<>>
    THEN map
    ELSE ref_after_calls([map EXCEPT ![Head(calls)[2]] = Head(calls)[3]],
                         Tail(calls))

\* The largest key that the calls of `calls` use.
RECURSIVE LargestKey(_)
LargestKey(calls) ==
    IF calls = <<>>
    THEN 0
    ELSE Largest(Head(calls)[2], LargestKey(Tail(calls)))

InitAfterDuplicate ==
    \E built \in {tree_after_calls(BTreeNode(3, TRUE), 0, 3, DuplicateBuild)} :
        /\ min_degree = 3
        /\ root = built.root
        /\ size = built.size
        /\ ref = ref_after_calls([k \in AllKeys |-> None], DuplicateBuild)
        /\ left = DuplicateCalls
        /\ max_key = LargestKey(DuplicateBuild)
        /\ op = <<"init", None, None>>
        /\ ret = None
        /\ raised = "none"
        /\ steps = {}
        /\ call = NoCall

\* A run of calls followed step by step from that tree.
SpecStepsAfterDuplicate == InitAfterDuplicate /\ [][NextSteps]_vars

\* The calls that build a tree of min degree 2 with a key stored twice next
\* to its separator: insert(4, 1) meets the full leaf [3,4,5], whose split
\* promotes 4, and adds a second 4 to the leaf [5]. The calls leave root
\* [3,4] over the leaves [1], [4] and [4,5], the two leaf entries with key 4
\* holding the values 1 and 2.
EqualKeysBuild ==
    <<<<"insert", 1, 1>>, <<"insert", 2, 1>>, <<"insert", 3, 1>>,
      <<"insert", 4, 1>>, <<"insert", 5, 1>>, <<"insert", 4, 1>>,
      <<"delete", 2, None>>, <<"delete", 5, None>>, <<"insert", 5, 1>>,
      <<"insert", 4, 2>>>>

InitAfterEqualKeys ==
    \E built \in {tree_after_calls(BTreeNode(2, TRUE), 0, 2, EqualKeysBuild)} :
        /\ min_degree = 2
        /\ root = built.root
        /\ size = built.size
        /\ ref = ref_after_calls([k \in AllKeys |-> None], EqualKeysBuild)
        /\ left = EqualKeysCalls
        /\ max_key = LargestKey(EqualKeysBuild)
        /\ op = <<"init", None, None>>
        /\ ret = None
        /\ raised = "none"
        /\ steps = {}
        /\ call = NoCall

\* A run of calls followed step by step from that tree.
SpecStepsAfterEqualKeys == InitAfterEqualKeys /\ [][NextSteps]_vars

\* The calls that build a tree of min degree 2 of three levels in which an
\* internal node holds a key that the leaf left of it holds too: insert(7, 2)
\* meets the full leaf [6,7,8], whose split promotes 7, and adds a second 7
\* to the leaf [8] (insert(2, 1) does the same with the key 2, to the right).
\* The calls leave root [5] over the internal nodes [2] and [7], over the
\* leaves [1], [2,3,4], [7] and [8]; the 7 of the internal node holds the
\* value 2 and the 7 of the leaf the value 1.
InnerDuplicateBuild ==
    <<<<"insert", 5, 1>>, <<"insert", 7, 1>>, <<"insert", 1, 1>>,
      <<"insert", 2, 1>>, <<"insert", 8, 1>>, <<"insert", 6, 1>>,
      <<"insert", 7, 2>>, <<"insert", 3, 1>>, <<"insert", 2, 1>>,
      <<"insert", 4, 1>>, <<"delete", 6, None>>>>

InitAfterInnerDuplicate ==
    \E built \in {tree_after_calls(BTreeNode(2, TRUE), 0, 2, InnerDuplicateBuild)} :
        /\ min_degree = 2
        /\ root = built.root
        /\ size = built.size
        /\ ref = ref_after_calls([k \in AllKeys |-> None], InnerDuplicateBuild)
        /\ left = InnerDuplicateCalls
        /\ max_key = LargestKey(InnerDuplicateBuild)
        /\ op = <<"init", None, None>>
        /\ ret = None
        /\ raised = "none"
        /\ steps = {}
        /\ call = NoCall

\* A run of calls followed step by step from that tree.
SpecStepsAfterInnerDuplicate == InitAfterInnerDuplicate /\ [][NextSteps]_vars

\* A step inside a call.
CallStep == SearchStep \/ InsertStep \/ DeleteStep \/ WalkStep \/ ReturnStep

\* The code runs in one thread, and a call that has begun takes its next
\* step; whether another call begins is left to the caller.
SpecStepsFair == SpecSteps /\ WF_vars(CallStep)

\* ------------------------------------------------- runs that empty a tree
\* A run that starts from a tree built by inserts of distinct keys (the
\* ascending, the descending and the dense build), deletes the stored keys
\* one by one in any order and, once none is left, inserts into the emptied
\* tree.
InitBuilt ==
    /\ \E t \in MinDegrees,
          key_sequence \in {AscendingKeys, DescendingKeys, DenseKeys} :
       \E built \in {tree_after_inserts(BTreeNode(t, TRUE), 0, t, key_sequence)} :
           /\ min_degree = t
           /\ root = built.root
           /\ size = built.size
           /\ ref = [k \in AllKeys |->
                        IF \E i \in DOMAIN key_sequence : key_sequence[i] = k
                        THEN 1 ELSE None]
           /\ left = Len(key_sequence) + 1
           /\ max_key = Largest(TallMaxKey, DenseMaxKey)
    /\ op = <<"init", None, None>>
    /\ ret = None
    /\ raised = "none"
    /\ steps = {}
    /\ call = NoCall

DeleteStored(key) == ref[key] # None /\ Delete(key)

InsertIntoEmptied(key, value) ==
    (\A k \in AllKeys : ref[k] = None) /\ Insert(key, value)

NextEmptying ==
    \/ \E key \in 1..max_key : DeleteStored(key)
    \/ \E key \in 1..max_key, value \in Values : InsertIntoEmptied(key, value)

SpecEmptying == InitBuilt /\ [][NextEmptying]_vars

\* --------------------------------------------------------- reading the tree
Range(s) == {s[i] : i \in DOMAIN s}

\* The nodes of the subtree under node, node included.
RECURSIVE SubtreeNodes(_)
SubtreeNodes(node) ==
    {node} \cup UNION {SubtreeNodes(c) : c \in Range(node.children)}

\* The keys held in the subtree under node.
SubtreeKeys(node) ==
    UNION {Range(NodeKeys(n)) : n \in SubtreeNodes(node)}

\* The nodes below the root.
NonRootNodes == UNION {SubtreeNodes(c) : c \in Range(root.children)}

\* The number of entries reachable from node.
RECURSIVE EntryCount(_)
RECURSIVE EntryCountOfAll(_)
EntryCountOfAll(nodes) ==
    IF nodes = <<>>
    THEN 0
    ELSE EntryCount(Head(nodes)) + EntryCountOfAll(Tail(nodes))

EntryCount(node) == NodeLen(node) + EntryCountOfAll(node.children)

\* The depths at which the leaves under node lie, node being at depth.
RECURSIVE LeafDepths(_, _)
LeafDepths(node, depth) ==
    IF node.is_leaf
    THEN {depth}
    ELSE UNION {LeafDepths(c, depth + 1) : c \in Range(node.children)}

\* The last call was name(key, ...), seen from the state before it.
Called(name) == op'[1] = name
Repairs == {"borrow_from_left_sibling", "borrow_from_right_sibling",
            "merge_with_left_sibling", "merge_with_right_sibling"}

\* ------------------------------------------------------------------ claims

\* C1 (as claimed): for every key k stored with value v1, insert(k, v2)
\* returns v1, leaves size unchanged, and a following search(k) returns v2,
\* wherever k sits.
UpdateSemantics ==
    [][(Called("insert") /\ search(root, size, op'[2]) # None)
       => /\ ret' = search(root, size, op'[2])
          /\ size' = size
          /\ search(root', size', op'[2]) = op'[3]]_vars

\* C2 (as claimed): in every internal node with entries k0 < ... < k(n-1)
\* and children c0..cn, the keys of subtree ci lie strictly between k(i-1)
\* and ki; no key occurs twice in the tree.
NodeSeparatesChildren(node) ==
    \A i \in 1..Len(node.children) :
        \A k \in SubtreeKeys(node.children[i]) :
            /\ (i > 1 /\ i - 1 <= NodeLen(node)) => k > node.key_value_pairs[i - 1].key
            /\ i <= NodeLen(node) => k < node.key_value_pairs[i].key

SearchTreeOrdering ==
    /\ \A node \in SubtreeNodes(root) : NodeSeparatesChildren(node)
    /\ EntryCount(root) = Cardinality(SubtreeKeys(root))

\* C3 (as claimed): the keys inside every node are strictly increasing.
KeysStrictlyIncreasing ==
    \A node \in SubtreeNodes(root) :
        \A i \in 1..(NodeLen(node) - 1) :
            node.key_value_pairs[i].key < node.key_value_pairs[i + 1].key

\* C4: every non-root node holds between t-1 and 2t-1 entries and the root
\* between 0 and 2t-1, for each min degree.
Occupancy ==
    /\ NodeLen(root) <= 2 * min_degree - 1
    /\ \A node \in NonRootNodes :
           /\ min_degree - 1 <= NodeLen(node)
           /\ NodeLen(node) <= 2 * min_degree - 1

\* C4 witness: a repair of an internal node has just merged two nodes of a
\* tree of min degree 2, and the tree still has nodes below the root.
OccupancyWitness ==
    /\ min_degree = 2
    /\ <<"merge_with_left_sibling", "internal">> \in steps
    /\ ~root.is_leaf

\* C5: every non-leaf node has exactly one more child than entries, and
\* every leaf has no children.
ChildCount ==
    \A node \in SubtreeNodes(root) :
        IF node.is_leaf
        THEN node.children = <<>>
        ELSE Len(node.children) = NodeLen(node) + 1

\* C5 witness: a delete has just borrowed through the parent for an internal
\* node, moving a child across.
ChildCountWitness ==
    /\ <<"borrow_from_right_sibling", "internal">> \in steps
    /\ ~root.is_leaf

\* C6: all leaves are at the same depth from the root.
HeightBalance == Cardinality(LeafDepths(root, 0)) = 1

\* C6 witness: an insert has just split an internal root (the tree grew to
\* height 3), or a delete has just collapsed the root onto an internal node.
HeightBalanceWitness ==
    \/ <<"split_root", "internal">> \in steps /\ LeafDepths(root, 0) = {2}
    \/ <<"root_collapse", "internal">> \in steps /\ LeafDepths(root, 0) = {1}

\* C7: size equals the number of entries reachable from the root.
SizeIsEntryCount == size = EntryCount(root)

\* C7 witness: a delete has just removed a key from an internal node through
\* its successor and repaired the tree, and entries remain.
SizeIsEntryCountWitness ==
    /\ <<"successor", "internal">> \in steps
    /\ \E s \in steps : s[1] \in Repairs
    /\ size > 0

\* C8 (as claimed): for every key whose most recent insert has not been
\* followed by a delete of it, search returns the value of that insert.
RoundTrip ==
    \A k \in AllKeys : ref[k] # None => search(root, size, k) = ref[k]

\* C9 (as claimed): after delete(k), search(k) returns absent, size has
\* decreased by exactly 1 if k was stored and is unchanged otherwise, and
\* every other key keeps its search result.
DeletionCorrectness ==
    [][Called("delete")
       => /\ search(root', size', op'[2]) = None
          /\ size' = IF search(root, size, op'[2]) # None THEN size - 1 ELSE size
          /\ \A k \in AllKeys \ {op'[2]} :
                 search(root', size', k) = search(root, size, k)]_vars

\* C10: delete(k) returns the value that search(k) returned immediately
\* before the call when k is stored, and absent when k is not stored.
DeleteReturnsSearched ==
    [][Called("delete")
       => /\ ret' = search(root, size, op'[2])
          /\ (op'[2] \in SubtreeKeys(root)) = (ret' # None)]_vars

\* C10 witness: a delete has just returned the value 2 of a key that sat in
\* an internal node, and a repair followed.
DeleteReturnsSearchedWitness ==
    /\ op[1] = "delete"
    /\ ret = 2
    /\ <<"successor", "internal">> \in steps
    /\ \E s \in steps : s[1] \in Repairs

ReferenceEquivalence ==
    [][(Called("insert") \/ Called("delete"))
       => /\ ret' = ref[op'[2]]
          /\ size' = Cardinality({k \in AllKeys : ref'[k] # None})
          /\ \A k \in AllKeys : search(root', size', k) = ref'[k]]_vars

\* The pairs <<key, value>> of map with key >= from, in ascending key order.
RECURSIVE StoredPairsFrom(_, _)
StoredPairsFrom(map, from) ==
    IF from \notin DOMAIN map
    THEN <<>>
    ELSE (IF map[from] # None THEN <<(<<from, map[from]>>)>> ELSE <<>>)
         \o StoredPairsFrom(map, from + 1)

Reverse(s) == [i \in 1..Len(s) |-> s[Len(s) + 1 - i]]

\* C13: the tree that a run of distinct-key inserts builds, whatever the
\* order of the run, has the same size and the same search result for every
\* key as the tree built from the same pairs in ascending key order and as
\* the one built in descending key order; hence any two orders agree.
OrderIndependence ==
    \A pairs \in {StoredPairsFrom(ref, 1), Reverse(StoredPairsFrom(ref, 1))} :
        \E other \in {tree_after_pairs(BTreeNode(min_degree, TRUE), 0,
                                       min_degree, pairs)} :
            /\ size = other.size
            /\ \A k \in 1..max_key :
                   search(root, size, k) = search(other.root, other.size, k)

\* C13 witness: DistinctKeys pairs have been inserted in an order that built
\* a tree of another shape than the ascending order builds.
OrderIndependenceWitness ==
    /\ size = DistinctKeys
    /\ ~root.is_leaf
    /\ root # tree_after_pairs(BTreeNode(min_degree, TRUE), 0, min_degree,
                               StoredPairsFrom(ref, 1)).root
    /\ \E k \in 1..max_key : search(root, size, k) = 2

\* C14: on an empty tree every search and every delete returns absent and
\* contains is false, no error is raised and delete leaves the tree as it
\* is; an insert(k, v) then returns absent, gives size 1 and search(k) = v.
EmptyTreeCalls ==
    [][size = 0
       => /\ \A k \in 1..max_key :
                 search(root, size, k) = None /\ ~contains(root, size, k)
          /\ Called("delete")
                 => ret' = None /\ raised' = "none" /\ root' = root /\ size' = 0
          /\ Called("insert")
                 => /\ ret' = None /\ raised' = "none" /\ size' = 1
                    /\ search(root', size', op'[2]) = op'[3]]_vars

\* C14 witness: an insert has just given size 1 to a tree that earlier calls
\* had left empty (all the calls before it were deletes on the empty tree,
\* or the tree had been filled and emptied again).
EmptyTreeCallsWitness ==
    /\ op[1] = "insert"
    /\ size = 1
    /\ max_key = MaxKey
    /\ left <= MaxCalls - 2
    /\ search(root, size, op[2]) = op[3]

\* C15: when the last stored key of a tree built by distinct-key inserts
\* has been deleted, in whatever order the keys went, size is 0 and is_empty
\* is true; an insert(k, v) into the emptied tree returns absent, gives
\* size 1 and search(k) = v.
EmptyingAndReuse ==
    [][/\ (Called("delete") /\ \A k \in AllKeys : ref'[k] = None)
              => size' = 0 /\ is_empty(size') /\ NodeLen(root') = 0
       /\ Called("insert")
              => /\ ret' = None /\ raised' = "none" /\ size' = 1
                 /\ search(root', size', op'[2]) = op'[3]]_vars

\* C15 witness: every key of a tree of min degree 2 has been deleted and the
\* last call of the run has inserted into the emptied tree.
EmptyingAndReuseWitness ==
    /\ min_degree = 2
    /\ op[1] = "insert"
    /\ left = 0
    /\ size = 1
    /\ search(root, size, op[2]) = op[3]

\* C16: the root holds zero entries if and only if size is 0, and then the
\* root is a leaf; a non-leaf root holds at least one entry.
RootEmptyOnlyWhenTreeEmpty ==
    /\ (NodeLen(root) = 0) = (size = 0)
    /\ size = 0 => root.is_leaf
    /\ ~root.is_leaf => NodeLen(root) >= 1

\* C16 witness: a delete has just emptied the root of a tree of height 2 or
\* more and replaced it by its only child.
RootEmptyOnlyWhenTreeEmptyWitness ==
    /\ op[1] = "delete"
    /\ <<"root_collapse", "internal">> \in steps
    /\ NodeLen(root) >= 1
    /\ size > 0

NullKeyRejected ==
    [][(Called("insert") /\ op'[2] = None)
       => raised' = "ValueError" /\ root' = root /\ size' = size]_vars

\* C19 (as claimed): BTreeIndex(d) with d >= 2 succeeds and yields an empty
\* tree of min degree d whose root is a leaf without entries; with d < 2 it
\* fails with ValueError and the run keeps what it had, and so does
\* BTreeNode(d).
Construction ==
    [][Called("new")
       => IF op'[2] >= 2
          THEN /\ raised' = "none"
               /\ size' = 0 /\ is_empty(size')
               /\ min_degree' = op'[2]
               /\ root' = BTreeNode(op'[2], TRUE)
          ELSE /\ raised' = "ValueError"
               /\ UNCHANGED <<min_degree, root, size>>
               /\ BTreeNode_init(op'[2], TRUE).raised = "ValueError"]_vars

\* C20 (as claimed): contains(k) is true if and only if an entry with key k
\* is in the tree, whatever value the entry holds.
ContainsIffStored ==
    \A k \in 1..max_key : contains(root, size, k) = (k \in SubtreeKeys(root))

\* ------------------------------------------------- claims about a node

PositionalNames ==
    {"get_key", "get_value", "get_key_value_pair", "get_child",
     "remove_key_value_pair", "remove_child"}

\* The list a positional method of the node reads or shortens.
PositionalList(node, name) ==
    IF name \in {"get_child", "remove_child"}
    THEN node.children
    ELSE node.key_value_pairs

StrictlyIncreasing(keys) ==
    \A i \in 1..(Len(keys) - 1) : keys[i] < keys[i + 1]

\* The number of entries of node whose key is smaller than key.
SmallerKeys(node, key) ==
    Cardinality({i \in 1..NodeLen(node) : get_key(node, i - 1) < key})

\* C21 (as claimed): a positional read or removal with an index outside
\* 0..len-1, negative indices included, fails with the out-of-range error
\* and leaves the node as it was.
OutOfRangeFails ==
    [][(/\ op'[1] \in PositionalNames
        /\ \/ op'[2] < 0
           \/ op'[2] >= Len(PositionalList(root, op'[1])))
       => raised' = "IndexError" /\ root' = root]_vars

\* C22: on a node whose keys are strictly increasing find_key_index(key)
\* returns the index of the entry with that key when there is one, and
\* otherwise -(p+1) for the number p of entries with a smaller key; on a
\* node without entries that is -1.
FindKeyIndexContract ==
    [][(Called("find_key_index") /\ StrictlyIncreasing(NodeKeys(root)))
       => /\ raised' = "none" /\ root' = root
          /\ IF \E i \in 1..NodeLen(root) : get_key(root, i - 1) = op'[2]
             THEN /\ ret' >= 0 /\ ret' < NodeLen(root)
                  /\ get_key(root, ret') = op'[2]
             ELSE ret' = -(SmallerKeys(root, op'[2]) + 1)
          /\ NodeLen(root) = 0 => ret' = -1]_vars

\* C22 witness: find_key_index has looked for a key that lies between the
\* two keys of a node and got -2.
FindKeyIndexContractWitness ==
    /\ op[1] = "find_key_index"
    /\ NodeLen(root) = 2 /\ StrictlyIncreasing(NodeKeys(root))
    /\ get_key(root, 0) < op[2] /\ op[2] < get_key(root, 1)
    /\ ret = -2

\* C23: on a node whose keys are strictly increasing get_child_index(key)
\* returns i+1 when key is the entry at index i and otherwise the number of
\* entries with a smaller key; when the node separates its children and key
\* is not one of its entries, no child but the returned one holds key.
ChildIndexContract ==
    \A node \in SubtreeNodes(root) : \A key \in 1..max_key :
        StrictlyIncreasing(NodeKeys(node)) =>
            With(get_child_index(node, key), LAMBDA child_index :
                IF key \in Range(NodeKeys(node))
                THEN /\ child_index >= 1 /\ child_index <= NodeLen(node)
                     /\ get_key(node, child_index - 1) = key
                ELSE /\ child_index = SmallerKeys(node, key)
                     /\ NodeSeparatesChildren(node) =>
                            \A j \in 1..Len(node.children) :
                                key \in SubtreeKeys(node.children[j])
                                    => j = child_index + 1)

\* C23 witness: an insert has found its key below a root of two or more
\* entries, in the child between the first and the second entry.
ChildIndexContractWitness ==
    /\ op[1] = "insert" /\ ret # None
    /\ ~root.is_leaf /\ NodeLen(root) >= 2
    /\ StrictlyIncreasing(NodeKeys(root)) /\ NodeSeparatesChildren(root)
    /\ op[2] \notin Range(NodeKeys(root))
    /\ get_child_index(root, op[2]) = 1
    /\ op[2] \in SubtreeKeys(get_child(root, 1))

\* C24 (as claimed): an assignment to _min_degree of a tree or of a node is
\* rejected with AttributeError, and no call changes the min degree of the
\* tree or of the node.
MinDegreeImmutable ==
    [][/\ (op'[1] \in {"node_setattr", "tree_setattr"} /\ op'[2] = "_min_degree")
            => raised' = "AttributeError"
       /\ root'.min_degree = root.min_degree
       /\ min_degree' = min_degree]_vars

\* C25 (as claimed): an assignment to is_leaf of a node returns without an
\* exception, and is_leaf then reads the assigned value.
LeafFlagMutable ==
    [][(Called("node_setattr") /\ op'[2] = "is_leaf")
       => raised' = "none" /\ root'.is_leaf = op'[3]]_vars

\* The steps of a call compute what the call computes: when a call that was
\* followed step by step returns, the tree, the size, the value returned and
\* the steps taken are those of the call taken as a whole.
StepsAgreeWithCalls ==
    [][(call.pc # "idle" /\ call'.pc = "idle")
       => IF op[1] = "search"
          THEN /\ ret' = search(call.start[1], call.start[2], op[2])
               /\ root' = call.start[1] /\ size' = call.start[2]
          ELSE \E r \in {IF op[1] = "insert"
                         THEN insert(call.start[1], call.start[2], min_degree,
                                     op[2], op[3])
                         ELSE delete(call.start[1], call.start[2], min_degree,
                                     op[2])} :
                  /\ root' = r.root
                  /\ size' = r.size
                  /\ ret' = r.result
                  /\ steps' = r.steps]_vars

\* C26: every call of search, insert and delete that has begun returns.
CallsReturn == (call.pc # "idle") ~> (call.pc = "idle")

\* C26 witness: a delete that replaced an entry of an internal node by its
\* successor, deleted the successor below and repaired an underflow has
\* returned.
CallsReturnWitness ==
    /\ call.pc = "idle" /\ op[1] = "delete"
    /\ <<"successor", "internal">> \in steps
    /\ \E name \in Repairs : <<name, "leaf">> \in steps

\* C27: during an insert no node ever holds more than 2t-1 entries, and a
\* node that an iteration of the insert loop adds an entry to (the leaf that
\* receives the new entry, the node that receives the median of its split
\* child) held fewer than 2t-1 entries before that iteration.
ProactiveSplitting ==
    [][op'[1] = "insert"
       => /\ \A node \in SubtreeNodes(root') :
                 NodeLen(node) <= 2 * min_degree - 1
          /\ call.pc = "insert"
                 => \/ NodeLen(node_at(root', call.path))
                           <= NodeLen(node_at(root, call.path))
                    \/ NodeLen(node_at(root, call.path)) < 2 * min_degree - 1]_vars

\* C27 witness: an insert that split the full internal root and then a full
\* leaf on its way down has added its entry to a leaf.
ProactiveSplittingWitness ==
    /\ call.pc = "idle" /\ op[1] = "insert"
    /\ {<<"split_root", "internal">>, <<"split_child", "leaf">>,
        <<"add", "leaf">>} \subseteq steps

\* C28 (as claimed): when the split of a full child has promoted an entry
\* with the key of the insert into the current node, the insert does not go
\* on below that node; an insert that split a child and whose key the tree
\* held returns with the value of that key overwritten and the size as it
\* was.
PromotedMedianIsPresent ==
    [][/\ call'.pc = "insert"
            => \A i \in 0..(Len(call'.path) - 1) :
                   call'.key \notin
                       Range(NodeKeys(node_at(root', SubSeq(call'.path, 1, i))))
       /\ (/\ call.pc = "insert" /\ call'.pc = "idle"
           /\ \E s \in steps' : s[1] = "split_child"
           /\ call.key \in SubtreeKeys(call.start[1]))
            => /\ size' = call.start[2]
               /\ search(root', size', call.key) = call.value]_vars

\* The split of the full child at child_index of parent, as the claim
\* describes it, relating the parent before (parent) and after
\* (parent_after): the child keeps its first t-1 entries (and first t
\* children), a sibling of the same leaf flag holds the last t-1 entries
\* (and last t children) in their order, the median (index t-1) is the
\* parent's entry at child_index, the sibling the child after it, and the
\* other entries and children of the parent are as they were.
SplitAsDescribed(parent, child_index, parent_after, t) ==
    \E child \in {get_child(parent, child_index)} :
    \E kept \in {get_child(parent_after, child_index)} :
    \E sibling \in {get_child(parent_after, child_index + 1)} :
        /\ NodeLen(child) = 2 * t - 1
        /\ kept.key_value_pairs = SubSeq(child.key_value_pairs, 1, t - 1)
        /\ sibling.key_value_pairs = SubSeq(child.key_value_pairs, t + 1, 2 * t - 1)
        /\ kept.is_leaf = child.is_leaf /\ sibling.is_leaf = child.is_leaf
        /\ kept.min_degree = t /\ sibling.min_degree = t
        /\ IF child.is_leaf
           THEN kept.children = <<>> /\ sibling.children = <<>>
           ELSE /\ Len(child.children) = 2 * t
                /\ kept.children = SubSeq(child.children, 1, t)
                /\ sibling.children = SubSeq(child.children, t + 1, 2 * t)
        /\ parent_after.key_value_pairs =
               SubSeq(parent.key_value_pairs, 1, child_index)
               \o <<child.key_value_pairs[t]>>
               \o SubSeq(parent.key_value_pairs, child_index + 1, NodeLen(parent))
        /\ parent_after.children =
               SubSeq(parent.children, 1, child_index)
               \o <<kept, sibling>>
               \o SubSeq(parent.children, child_index + 2, Len(parent.children))
        /\ parent_after.is_leaf = parent.is_leaf
        /\ parent_after.min_degree = parent.min_degree

\* C29 (as claimed): every split that insert makes, of a full root under a new root and
\* of a full child under the current node, is the split described above.
SplitCorrectness ==
    [][/\ (/\ call.pc = "idle" /\ call'.pc = "insert"
           /\ NodeLen(root) >= 2 * min_degree - 1)
            => SplitAsDescribed([BTreeNode(min_degree, FALSE) EXCEPT
                                     !.children = <<root>>],
                                0, root', min_degree)
       /\ (call.pc = "insert" /\ call'.pc = "insert")
            => \E current \in {node_at(root, call.path)} :
               \E child_index \in {get_child_index(current, call.key)} :
                   IF NodeLen(get_child(current, child_index)) >= 2 * min_degree - 1
                   THEN SplitAsDescribed(current, child_index,
                                         node_at(root', call.path), min_degree)
                   ELSE root' = root]_vars

\* The frame of delete that has returned hangs under the node `Caller`, as
\* its child at index `Returned`.
Caller == SubSeq(call.path, 1, Len(call.path) - 1)
Returned == call.path[Len(call.path)]

\* A repair has merged two children of the caller: the caller has a child
\* less than before.
MergeDone ==
    /\ call.pc = "return" /\ call.path # <<>>
    /\ Len(node_at(root', Caller).children) < Len(node_at(root, Caller).children)

\* The node that the merge has made: the left sibling of the returned child
\* if the repair changed it, else the returned child.
MergedNode ==
    IF /\ Returned > 0
       /\ get_child(node_at(root', Caller), Returned - 1)
              # get_child(node_at(root, Caller), Returned - 1)
    THEN get_child(node_at(root', Caller), Returned - 1)
    ELSE get_child(node_at(root', Caller), Returned)

\* C30 (as claimed): every merge of an underflow repair yields a node with
\* between 2(t-1)+1 and 2t-1 entries.
MergeSizeAsStated ==
    [][MergeDone
       => /\ 2 * (min_degree - 1) + 1 <= NodeLen(MergedNode)
          /\ NodeLen(MergedNode) <= 2 * min_degree - 1]_vars

\* C30 (amended): every merge of an underflow repair yields a node with
\* 2(t-1) entries: the t-2 entries of the underflowing child, the separator
\* and the t-1 entries of the sibling; that is within the capacity 2t-1.
MergeSize ==
    [][MergeDone
       => /\ NodeLen(MergedNode) = 2 * (min_degree - 1)
          /\ NodeLen(get_child(node_at(root, Caller), Returned)) = min_degree - 2
          /\ NodeLen(node_at(root', Caller)) = NodeLen(node_at(root, Caller)) - 1]_vars

\* C30 witness: a delete is on its way up after a repair has merged two
\* internal nodes.
MergeSizeWitness ==
    /\ call.pc = "return"
    /\ \E name \in {"merge_with_left_sibling", "merge_with_right_sibling"} :
           <<name, "internal">> \in steps

\* C31: the node that a merge of an underflow repair makes holds at most
\* 2t-1 and at least t-1 entries, for each min degree.
MergeNeverOverflows ==
    [][MergeDone
       => /\ NodeLen(MergedNode) <= 2 * min_degree - 1
          /\ NodeLen(MergedNode) >= min_degree - 1]_vars

\* C31 witness: a delete is on its way up after a repair has merged two
\* leaves of a tree of min degree 3.
MergeNeverOverflowsWitness ==
    /\ call.pc = "return" /\ min_degree = 3
    /\ \E name \in {"merge_with_left_sibling", "merge_with_right_sibling"} :
           <<name, "leaf">> \in steps

\* The node whose child has returned, before and after the caller's repair.
RepairParent == node_at(root, Caller)
RepairParentAfter == node_at(root', Caller)

\* The caller's check finds the returned child underflowing.
Underflows ==
    /\ call.pc = "return" /\ call.path # <<>>
    /\ Returned < Len(RepairParent.children)
    /\ NodeLen(get_child(RepairParent, Returned)) < min_degree - 1

\* What each of the four repairs does to the entry counts of the child at
\* index `index` of the parent and of its sibling at index `sibling`.
Borrowed(index, sibling) ==
    /\ Len(RepairParentAfter.children) = Len(RepairParent.children)
    /\ NodeLen(get_child(RepairParentAfter, index))
           = NodeLen(get_child(RepairParent, index)) + 1
    /\ NodeLen(get_child(RepairParentAfter, sibling))
           = NodeLen(get_child(RepairParent, sibling)) - 1

\* The children at `first` and `first + 1` have become one child at `first`.
Merged(first) ==
    /\ Len(RepairParentAfter.children) = Len(RepairParent.children) - 1
    /\ NodeLen(get_child(RepairParentAfter, first))
           = NodeLen(get_child(RepairParent, first)) + 1
             + NodeLen(get_child(RepairParent, first + 1))
    /\ \A j \in 0..(Len(RepairParentAfter.children) - 1) :
           j # first => get_child(RepairParentAfter, j)
                            = get_child(RepairParent, IF j < first THEN j ELSE j + 1)

\* C32: the repair of an underflowing child borrows from the left sibling
\* if there is one with more than t-1 entries, else borrows from the right
\* sibling if there is one with more than t-1 entries, else merges with the
\* left sibling if there is one, else merges with the right sibling; it
\* never returns without one of the four.
RepairPriority ==
    [][Underflows
       => IF /\ Returned > 0
             /\ NodeLen(get_child(RepairParent, Returned - 1)) > min_degree - 1
          THEN Borrowed(Returned, Returned - 1)
          ELSE IF /\ Returned < Len(RepairParent.children) - 1
                  /\ NodeLen(get_child(RepairParent, Returned + 1)) > min_degree - 1
          THEN Borrowed(Returned, Returned + 1)
          ELSE IF Returned > 0
          THEN Merged(Returned - 1)
          ELSE IF Returned < Len(RepairParent.children) - 1
          THEN Merged(Returned)
          ELSE FALSE]_vars

\* C32 witness: a delete is on its way up after a repair that had a left
\* sibling to borrow from and has borrowed from it, in a parent of three or
\* more children.
RepairPriorityWitness ==
    /\ call.pc = "return"
    /\ <<"borrow_from_left_sibling", "leaf">> \in steps
    /\ \E node \in SubtreeNodes(root) : Len(node.children) >= 3

\* A sequence without its last element, and its last element.
AllButLast(s) == SubSeq(s, 1, Len(s) - 1)
LastOf(s) == s[Len(s)]

\* The borrow from the left sibling as the claim describes it, for the child
\* at index `index` of the parent.
BorrowFromLeftAsDescribed(index) ==
    \E child \in {get_child(RepairParent, index)} :
    \E sibling \in {get_child(RepairParent, index - 1)} :
    \E child_after \in {get_child(RepairParentAfter, index)} :
    \E sibling_after \in {get_child(RepairParentAfter, index - 1)} :
        /\ child_after.key_value_pairs =
               <<get_key_value_pair(RepairParent, index - 1)>> \o child.key_value_pairs
        /\ sibling_after.key_value_pairs = AllButLast(sibling.key_value_pairs)
        /\ RepairParentAfter.key_value_pairs =
               [RepairParent.key_value_pairs EXCEPT
                    ![index] = LastOf(sibling.key_value_pairs)]
        /\ IF child.is_leaf
           THEN /\ child_after.children = child.children
                /\ sibling_after.children = sibling.children
           ELSE /\ child_after.children = <<LastOf(sibling.children)>> \o child.children
                /\ sibling_after.children = AllButLast(sibling.children)
        /\ NodeLen(sibling_after) >= min_degree - 1

\* The borrow from the right sibling as the claim describes it.
BorrowFromRightAsDescribed(index) ==
    \E child \in {get_child(RepairParent, index)} :
    \E sibling \in {get_child(RepairParent, index + 1)} :
    \E child_after \in {get_child(RepairParentAfter, index)} :
    \E sibling_after \in {get_child(RepairParentAfter, index + 1)} :
        /\ child_after.key_value_pairs =
               child.key_value_pairs \o <<get_key_value_pair(RepairParent, index)>>
        /\ sibling_after.key_value_pairs = Tail(sibling.key_value_pairs)
        /\ RepairParentAfter.key_value_pairs =
               [RepairParent.key_value_pairs EXCEPT
                    ![index + 1] = Head(sibling.key_value_pairs)]
        /\ IF child.is_leaf
           THEN /\ child_after.children = child.children
                /\ sibling_after.children = sibling.children
           ELSE /\ child_after.children = child.children \o <<Head(sibling.children)>>
                /\ sibling_after.children = Tail(sibling.children)
        /\ NodeLen(sibling_after) >= min_degree - 1

\* What a borrow leaves as it was: the other children of the parent, the
\* numbers of entries and children of the parent, the height of the tree,
\* its size and the keys it holds.
BorrowFrame(index, sibling) ==
    /\ Len(RepairParentAfter.children) = Len(RepairParent.children)
    /\ NodeLen(RepairParentAfter) = NodeLen(RepairParent)
    /\ \A j \in 0..(Len(RepairParent.children) - 1) :
           j \notin {index, sibling}
               => get_child(RepairParentAfter, j) = get_child(RepairParent, j)
    /\ LeafDepths(root', 0) = LeafDepths(root, 0)
    /\ size' = size
    /\ SubtreeKeys(root') = SubtreeKeys(root)
    /\ EntryCount(root') = EntryCount(root)

\* C33: a borrow moves the parent's separator down into the underflowing
\* child and the sibling's adjacent extreme entry up in its place (and, for
\* internal nodes, the sibling's adjacent extreme child across); the sibling
\* keeps at least t-1 entries and everything else stays as it was.
BorrowEffect ==
    [][Underflows
       => IF /\ Returned > 0
             /\ NodeLen(get_child(RepairParent, Returned - 1)) > min_degree - 1
          THEN /\ BorrowFromLeftAsDescribed(Returned)
               /\ BorrowFrame(Returned, Returned - 1)
          ELSE (/\ Returned < Len(RepairParent.children) - 1
                /\ NodeLen(get_child(RepairParent, Returned + 1)) > min_degree - 1)
               => /\ BorrowFromRightAsDescribed(Returned)
                  /\ BorrowFrame(Returned, Returned + 1)]_vars

\* How often the entry e occurs in the sequence s, and whether two sequences
\* hold the same entries as often (in whatever order).
Occurrences(s, e) == Cardinality({i \in DOMAIN s : s[i] = e})
SameEntries(s, t) ==
    /\ Len(s) = Len(t)
    /\ \A e \in Range(s) \cup Range(t) : Occurrences(s, e) = Occurrences(t, e)

\* The keys of the sequence of entries s never decrease.
InKeyOrder(s) == \A i \in 1..(Len(s) - 1) : s[i].key <= s[i + 1].key

\* The merge of the children at indices first and first + 1 of the parent as
\* the claim describes it: the parent loses the separator between the two
\* and one child, the survivor holds the entries of both and the separator
\* in key order and the children of both, and the other children of the
\* parent are as they were, in their order.
MergeAsDescribed(first) ==
    \E left_node \in {get_child(RepairParent, first)} :
    \E right_node \in {get_child(RepairParent, first + 1)} :
    \E survivor \in {get_child(RepairParentAfter, first)} :
        /\ RepairParentAfter.key_value_pairs
               = SubSeq(RepairParent.key_value_pairs, 1, first)
                 \o SubSeq(RepairParent.key_value_pairs, first + 2,
                           NodeLen(RepairParent))
        /\ Len(RepairParentAfter.children) = Len(RepairParent.children) - 1
        /\ SameEntries(survivor.key_value_pairs,
                       left_node.key_value_pairs
                       \o <<get_key_value_pair(RepairParent, first)>>
                       \o right_node.key_value_pairs)
        /\ InKeyOrder(survivor.key_value_pairs)
        /\ survivor.children = left_node.children \o right_node.children
        /\ survivor.is_leaf = left_node.is_leaf
        /\ \A j \in 0..(Len(RepairParentAfter.children) - 1) :
               j # first => get_child(RepairParentAfter, j)
                                = get_child(RepairParent, IF j < first THEN j ELSE j + 1)
        /\ size' = size
        /\ EntryCount(root') = EntryCount(root)
        /\ SubtreeKeys(root') = SubtreeKeys(root)

\* The repair of the returned child has no sibling to borrow from.
NoSiblingToBorrowFrom ==
    /\ Returned > 0
           => NodeLen(get_child(RepairParent, Returned - 1)) <= min_degree - 1
    /\ Returned < Len(RepairParent.children) - 1
           => NodeLen(get_child(RepairParent, Returned + 1)) <= min_degree - 1

\* C34: a merge removes exactly the separator between the two merged
\* children and exactly one child from the parent; the surviving node holds
\* the entries and the children of both and the separator, in key order;
\* no entry is lost or added, and the other children of the parent keep
\* their order.
MergeEffect ==
    [][(Underflows /\ NoSiblingToBorrowFrom /\ Len(RepairParent.children) > 1)
       => MergeAsDescribed(IF Returned > 0 THEN Returned - 1 ELSE Returned)]_vars

\* C34 witness: a delete is on its way up after a repair has merged two
\* internal nodes, in a tree that still has a root with children.
MergeEffectWitness ==
    /\ call.pc = "return"
    /\ <<"merge_with_left_sibling", "internal">> \in steps
    /\ ~root.is_leaf

\* The entries under node in the order of an in-order walk: the entries of
\* the first child, the first entry of the node, the entries of the second
\* child, and so on.
RECURSIVE InOrder(_)
RECURSIVE InOrderFrom(_, _)
InOrderFrom(node, index) ==
    IF index > NodeLen(node)
    THEN <<>>
    ELSE InOrder(get_child(node, index))
         \o (IF index < NodeLen(node)
             THEN <<get_key_value_pair(node, index)>>
             ELSE <<>>)
         \o InOrderFrom(node, index + 1)

InOrder(node) ==
    IF node.is_leaf THEN node.key_value_pairs ELSE InOrderFrom(node, 0)

\* The sequence s without its element at position p.
RemoveAt(s, p) == SubSeq(s, 1, p - 1) \o SubSeq(s, p + 1, Len(s))

\* The frame that found its key in an internal node replaces the entry, at
\* the index where it found the key, by the first entry of an in-order walk
\* of the next child, which holds the least key under that child, and calls
\* itself on that child with that key.
ReplacedBySuccessor ==
    \E current \in {node_at(root, call.path)} :
    \E index \in {find_key_index(current, call.key)} :
    \E under \in {InOrder(get_child(current, index + 1))} :
        /\ under # <<>>
        /\ \A k \in SubtreeKeys(get_child(current, index + 1)) : under[1].key <= k
        /\ node_at(root', call.path)
               = [current EXCEPT !.key_value_pairs[index + 1] = under[1]]
        /\ size' = size
        /\ call'.pc = "delete"
        /\ call'.key = under[1].key
        /\ call'.path = Append(call.path, index + 1)

\* The whole delete that found its key in an internal node has removed one
\* entry with that key, whose value it returns, and nothing else, and the
\* size is one less.
OneEntryRemoved ==
    \E before \in {InOrder(call.start[1])} :
    \E p \in DOMAIN before :
        /\ before[p].key = op[2]
        /\ ret' = before[p].value
        /\ InOrder(root') = RemoveAt(before, p)
        /\ size' = call.start[2] - 1

\* C35: a delete that finds its key at index i of an internal node puts the
\* in-order successor, the least entry under child i+1, in the place of the
\* entry at i, removes that successor from its leaf, repairs child i+1 if it
\* then underflows, leaves the size one less and returns the value of the
\* deleted key.
SuccessorDelete ==
    [][/\ (call.pc = "successor" /\ root' # root) => ReplacedBySuccessor
       /\ (/\ call.pc = "delete" /\ call.nested
           /\ find_key_index(node_at(root, call.path), call.key) >= 0)
              => /\ node_at(root, call.path).is_leaf
                 /\ find_key_index(node_at(root, call.path), call.key) = 0
       /\ (call.pc = "return" /\ call.nested /\ call.path # <<>>)
              => \A child \in Range(RepairParentAfter.children) :
                     NodeLen(child) >= min_degree - 1
       /\ (call.pc = "return" /\ call.nested /\ call.path = <<>>)
              => OneEntryRemoved]_vars

\* Every leaf under the node a lies n levels deeper than the leaves under b.
Taller(a, b, n) == LeafDepths(a, 0) = {d + n : d \in LeafDepths(b, 0)}

\* The last step of a delete, where delete looks at the root that
\* _delete_from_node has left: the root is replaced, by its only child,
\* exactly when it has no entries and is not a leaf.
CollapseExactlyWhenEmptied ==
    IF NodeLen(root) = 0 /\ ~root.is_leaf
    THEN /\ Len(root.children) = 1
         /\ root' = root.children[1]
         /\ Taller(root, root', 1)
    ELSE root' = root

\* C36: a delete replaces the root by its sole remaining child exactly when
\* the root is left with no entries and is not a leaf; a delete lowers the
\* height by at most one level and never raises it; an insert raises the
\* height by at most one level, only by the split of the root, and never
\* lowers it.
RootCollapseAndHeight ==
    [][/\ (call.pc = "return" /\ call.path = <<>>) => CollapseExactlyWhenEmptied
       /\ (\/ call.pc \in {"delete", "successor", "predecessor", "insert"}
           \/ call.pc = "return" /\ call.path # <<>>)
              => Taller(root', root, 0)
       /\ (call.pc = "idle" /\ op'[1] = "delete") => root' = root
       /\ (call.pc = "idle" /\ op'[1] = "insert")
              => IF size > 0 /\ NodeLen(root) = 2 * min_degree - 1
                 THEN Taller(root', root, 1)
                 ELSE Taller(root', root, 0)
       /\ (call.pc # "idle" /\ call'.pc = "idle" /\ op[1] = "delete")
              => \/ Taller(root', call.start[1], 0)
                 \/ Taller(call.start[1], root', 1)
       /\ (call.pc # "idle" /\ call'.pc = "idle" /\ op[1] = "insert")
              => \/ Taller(root', call.start[1], 0)
                 \/ /\ Taller(root', call.start[1], 1)
                    /\ NodeLen(call.start[1]) = 2 * min_degree - 1]_vars

\* C36 witness: a delete has emptied the internal root of a tree of three
\* levels and is about to return.
RootCollapseAndHeightWitness ==
    /\ call.pc = "return" /\ call.path = <<>>
    /\ NodeLen(root) = 0 /\ ~root.is_leaf
    /\ LeafDepths(root, 0) = {2}

\* The repair of the returned child calls the merge function `name`.
MergeCalled(name) ==
    /\ call.pc = "return" /\ call.path # <<>>
    /\ \E fixed \in {repair_child(RepairParent, Returned, min_degree)} :
           \E kind \in {"leaf", "internal"} : <<name, kind>> \in fixed.steps

\* What the fallback of a merge tests: the two nodes and the separator are
\* more than 2t-1 entries and the sibling holds more than t-1.
UnsafeToMerge(first, second, sibling) ==
    /\ NodeLen(first) + 1 + NodeLen(second) > 2 * min_degree - 1
    /\ NodeLen(sibling) > min_degree - 1

\* C37: no merge finds the two nodes and the separator above 2t-1 entries
\* with a sibling above t-1 entries, so no call of a merge borrows instead:
\* each one leaves the parent with one child less.
UnsafeMergeNeverArises ==
    [][/\ MergeCalled("merge_with_left_sibling")
              => /\ ~UnsafeToMerge(get_child(RepairParent, Returned - 1),
                                   get_child(RepairParent, Returned),
                                   get_child(RepairParent, Returned - 1))
                 /\ Len(RepairParentAfter.children) = Len(RepairParent.children) - 1
       /\ MergeCalled("merge_with_right_sibling")
              => /\ ~UnsafeToMerge(get_child(RepairParent, Returned),
                                   get_child(RepairParent, Returned + 1),
                                   get_child(RepairParent, Returned + 1))
                 /\ Len(RepairParentAfter.children) = Len(RepairParent.children) - 1]_vars

\* C37 witness: a delete is on its way up after merges with a left and with
\* a right sibling.
UnsafeMergeNeverArisesWitness ==
    /\ call.pc = "return"
    /\ \E kind \in {"leaf", "internal"} : <<"merge_with_left_sibling", kind>> \in steps
    /\ \E kind \in {"leaf", "internal"} : <<"merge_with_right_sibling", kind>> \in steps

\* The leaf reached from node through first children only.
RECURSIVE LeftmostLeaf(_)
LeftmostLeaf(node) ==
    IF node.is_leaf \/ node.children = <<>>
    THEN node
    ELSE LeftmostLeaf(node.children[1])

\* The frame of the call in progress has found its key in an internal node
\* and looks for the successor.
KeyFoundInInternalNode == call.pc \in {"successor", "predecessor"}

\* C38: whenever a delete has found its key at index i of an internal node,
\* the leftmost leaf under child i+1 holds at least one entry; the delete
\* never turns to the predecessor and never removes the key on the spot.
PredecessorNeverUsed ==
    /\ call.pc # "predecessor"
    /\ KeyFoundInInternalNode
           => \E current \in {node_at(root, call.path)} :
              \E index \in {find_key_index(current, call.key)} :
                  /\ index >= 0 /\ ~current.is_leaf
                  /\ LeftmostLeaf(current.children[index + 2]).is_leaf
                  /\ NodeLen(LeftmostLeaf(current.children[index + 2])) >= 1
    /\ <<"predecessor", "internal">> \notin steps
    /\ <<"remove", "internal">> \notin steps

\* C38 witness: a delete has found its key in an internal node whose next
\* child is internal too, and has walked down to the leftmost leaf under it.
PredecessorNeverUsedWitness ==
    /\ call.pc = "successor"
    /\ Len(call.walk) >= Len(call.path) + 2
    /\ node_at(root, call.walk).is_leaf

\* The node that the loop of insert is at, before and after an iteration.
InsertCurrent == node_at(root, call.path)
InsertCurrentAfter == node_at(root', call.path)

\* The iteration of the loop of insert meets a full child on its way down.
MeetsFullChild ==
    /\ call.pc = "insert"
    /\ ~InsertCurrent.is_leaf
    /\ call.key \notin Range(NodeKeys(InsertCurrent))
    /\ NodeLen(InsertCurrent.children[SmallerKeys(InsertCurrent, call.key) + 1])
           = 2 * min_degree - 1

\* C39: when insert splits a child on its way down, the parent, which
\* receives the promoted median, holds at most 2t-2 entries just before the
\* split, and at most 2t-1 entries and 2t children after it.
ChildSplitParentHasRoom ==
    [][/\ MeetsFullChild
              => Len(InsertCurrentAfter.children) = Len(InsertCurrent.children) + 1
       /\ (/\ call.pc = "insert"
           /\ Len(InsertCurrentAfter.children) > Len(InsertCurrent.children))
              => /\ NodeLen(InsertCurrent) <= 2 * min_degree - 2
                 /\ NodeLen(InsertCurrentAfter) = NodeLen(InsertCurrent) + 1
                 /\ NodeLen(InsertCurrentAfter) <= 2 * min_degree - 1
                 /\ Len(InsertCurrentAfter.children) = Len(InsertCurrent.children) + 1
                 /\ Len(InsertCurrentAfter.children) <= 2 * min_degree]_vars

\* C39 witness: an insert has split a child of a node below the root, which
\* held 2t-2 entries and now holds 2t-1 entries and 2t children.
ChildSplitParentHasRoomWitness ==
    /\ call.pc = "insert"
    /\ Len(call.path) >= 2
    /\ <<"split_child", "leaf">> \in steps
    /\ NodeLen(node_at(root, Caller)) = 2 * min_degree - 1
    /\ Len(node_at(root, Caller).children) = 2 * min_degree

\* C40: delete(k) for a key k that the tree does not hold leaves the root,
\* with every node under it, and the size as they were, returns absent and
\* raises nothing; it takes no step at all: no borrow, no merge, no root
\* collapse.
DeleteMissChangesNothing ==
    [][(Called("delete") /\ op'[2] \notin SubtreeKeys(root))
       => /\ root' = root
          /\ size' = size
          /\ ret' = None
          /\ raised' = "none"
          /\ steps' = {}]_vars

\* C40 witness: a delete has just missed in a tree of three levels that
\* holds entries.
DeleteMissChangesNothingWitness ==
    /\ op[1] = "delete"
    /\ op[2] \notin SubtreeKeys(root)
    /\ steps = {}
    /\ ret = None
    /\ size > 0
    /\ LeafDepths(root, 0) = {2}

====
